---- MODULE Spec2Model ----
(***************************************************************************)
(* Job workflow state machine (backend/services/workflow.py), its two      *)
(* launchers (FastAPI background tasks in backend/routes/jobs.py, Celery   *)
(* tasks in backend/services/queue.py) and the docking run with its ligand *)
(* scheduler (backend/services/docking.py).                                *)
(*                                                                         *)
(* One job is followed through its executions.  Optional values of a      *)
(* non-string type are sets: {} is Python's None, {v} is the value v.      *)
(* Optional strings use the string None.                                   *)
(***************************************************************************)
EXTENDS Integers, Sequences, FiniteSets, TLC

\* ---------------------------------------------------------------- bounds
\* Largest ligand batch of a job that is followed through all its executions.
MaxJobLigands == 1

\* Largest ligand batch of a job that is followed through one execution.
MaxLigands == 3

\* Configured in-flight limit of the ligand scheduler (docking.py:39 reads it
\* from the settings; MaxLigands is chosen to exceed it).
MAX_PARALLEL_LIGANDS == 2

\* Number of explicit retry requests the client sends.
MaxRetryRequests == 1

\* Largest number of keys of a parameter map that combines several keys.
MaxParamKeys == 2

\* Largest exhaustiveness a parameter map asks for on its own; it exceeds
\* MAX_EXHAUSTIVENESS.
MaxExhaustivenessInput == 34

\* Largest number of lines of an engine log.
MaxLogLines == 4

\* The most successful results handed to perform_pose_clustering.
MaxClusterResults == 3

\* Number of retry requests the clients send for one job at the same time.
MaxRetryHandlers == 2

\* Number of calls of _cache_analysis and _get_cached_analysis that are
\* followed one by one.
MaxCacheCalls == 4

\* The latest reading of the clock, in seconds.
MaxClock == 3699

\* ------------------------------------------------------------- constants
\* @celery_app.task(..., max_retries=3)
max_retries == 3

\* docking.py:17-26, the real-valued ones in tenths (20.0 is 200).
DEFAULT_GRID_SIZE == 200

MIN_GRID_SIZE == 50

MAX_GRID_SIZE == 1000

DEFAULT_EXHAUSTIVENESS == 8

MIN_EXHAUSTIVENESS == 1

MAX_EXHAUSTIVENESS == 32

DEFAULT_NUM_MODES == 9

MIN_NUM_MODES == 1

MAX_NUM_MODES == 20

DEFAULT_ENERGY_RANGE == 30

\* docking.py:33
POSE_CONSISTENCY_TOP_N == 3

\* docking.py:30-31, in seconds.
BASE_DOCKING_TIMEOUT == 120

MAX_DOCKING_TIMEOUT == 1200

None == "None"

\* CACHE_TTL_SECONDS = 3600
CACHE_TTL_SECONDS == 3600

\* if len(_analysis_cache) > 100
CACHE_MAX_ENTRIES == 100

\* models.py JobStatus
SUBMITTED == "submitted"
PREDICTING_STRUCTURE == "predicting_structure"
STRUCTURE_PREDICTED == "structure_predicted"
DOCKING == "docking"
ANALYZING == "analyzing"
COMPLETED == "completed"
FAILED == "failed"

JobStatus == {SUBMITTED, PREDICTING_STRUCTURE, STRUCTURE_PREDICTED, DOCKING, ANALYZING, COMPLETED, FAILED}

\* models.py JobType
DOCKING_ONLY == "docking_only"
SEQUENCE_TO_DOCKING == "sequence_to_docking"

JobType == {DOCKING_ONLY, SEQUENCE_TO_DOCKING}

\* The mapped columns of models.Job that the workflow reads or writes.  The
\* table has no progress and no progress_message column.
JobColumns == {"status", "job_type", "protein_pdb_path", "protein_sequence", "predicted_pdb_path", "plddt_score", "ligand_files", "docking_parameters", "docking_results", "top_binding_score", "ai_report_content", "blockchain_tx_hash", "structure_hash", "report_hash", "error_message", "completed_at"}

\* Columns whose values are not strings in this model.
SetValued == {"docking_results", "top_binding_score", "progress"}

\* hasattr(job, key) on a Job instance freshly loaded from the session.
hasattr(j, key) == key \in DOMAIN j

\* Python truthiness of an optional string.
Truthy(s) == s # None /\ s # ""

Max(a, b) == IF a >= b THEN a ELSE b

Min(a, b) == IF a <= b THEN a ELSE b

\* max(0, min(100, progress)) (workflow.py:57).
Clamp(p) == Max(0, Min(100, p))

\* ------------------------------------------------------------ exceptions
NoExc == [type |-> None, msg |-> None]

\* A wrapper that takes every exception for a transient one.
TransientAlways(e) == e.type # None

\* isinstance(e, (ConnectionError, TimeoutError)) in the Celery wrappers.
Transient(e) == e.type \in {"ConnectionError", "TimeoutError"}

\* What update_job_status raises when the session fails: a SQLAlchemyError is
\* wrapped in DatabaseError (workflow.py:81-84), anything else is re-raised
\* as it is (workflow.py:85-88), e.g. the driver's ConnectionError.
DbErrors == {[type |-> "DatabaseError", msg |-> "Failed to update job status: db"], [type |-> "ConnectionError", msg |-> "connection refused"]}

\* The error each collaborator stage raises to the workflow: the wrappers of
\* workflow.py:362, alphafold.py:105, binding_site.py:286 and
\* ai_report.py:278, a read error extract_quality_metrics does not catch
\* (alphafold.py:365-417), and the except clause of store_on_blockchain
\* reading a name its try block has not bound yet (blockchain.py:83-92).
StageError(fn) == CASE fn = "save_pdb" -> [type |-> "FileProcessingError", msg |-> "Failed to save uploaded PDB file"] [] fn = "run_alphafold" -> [type |-> "AlphaFoldError", msg |-> "Failed to run AlphaFold prediction"] [] fn = "extract_quality_metrics" -> [type |-> "UnicodeDecodeError", msg |-> "invalid start byte"] [] fn = "analyze_binding_sites" -> [type |-> "BindingSiteError", msg |-> "Geometric analysis failed"] [] fn = "generate_ai_report" -> [type |-> "AIReportError", msg |-> "Failed to generate AI report"] [] fn = "store_on_blockchain" -> [type |-> "UnboundLocalError", msg |-> "report_hash referenced before assignment"]

\* --------------------------------------------------------------- the job
\* The row create_job inserts (routes/jobs.py:54-61): status takes the column
\* default SUBMITTED, every nullable column not given is NULL.
NewJob(job_type, ligand_files) == [k \in JobColumns |-> CASE k = "status" -> SUBMITTED [] k = "job_type" -> job_type [] k = "ligand_files" -> ligand_files [] k = "docking_parameters" -> "params" [] k = "protein_sequence" -> (IF job_type = SEQUENCE_TO_DOCKING THEN "sequence" ELSE None) [] k \in SetValued -> {} [] OTHER -> None]

\* update_job_status storing a fixed text instead of the message it is given.
update_job_status_FixedMessage(j, status, error_message, progress, kwargs) ==
  LET j1 == [j EXCEPT !.status = status]
      j2 == IF Truthy(error_message) THEN [j1 EXCEPT !.error_message = "Job failed"] ELSE j1
      j4 == [k \in DOMAIN j2 |-> IF k \in DOMAIN kwargs THEN kwargs[k] ELSE j2[k]]
      j5 == IF status = COMPLETED THEN [j4 EXCEPT !.completed_at = "now"] ELSE j4
  IN j5

\* update_job_status (workflow.py:50-72), the in-memory changes that
\* session.commit() then persists.  progress is {} for None.
update_job_status(j, status, error_message, progress, kwargs) ==
  LET j1 == [j EXCEPT !.status = status]
      j2 == IF Truthy(error_message) THEN [j1 EXCEPT !.error_message = error_message] ELSE j1
      j3 == IF progress # {} /\ hasattr(j2, "progress") THEN [j2 EXCEPT !["progress"] = {Clamp(p) : p \in progress}] ELSE j2
      j4 == [k \in DOMAIN j3 |-> IF k \in DOMAIN kwargs THEN kwargs[k] ELSE j3[k]]
      j5 == IF status = COMPLETED THEN [j4 EXCEPT !.completed_at = "now"] ELSE j4
      j6 == IF status = COMPLETED /\ progress = {} /\ hasattr(j5, "progress") THEN [j5 EXCEPT !["progress"] = {100}] ELSE j5
  IN j6

\* ------------------------------------------------------- workflow bodies
W(status, progress, kw) == [op |-> "write", status |-> status, progress |-> {progress}, kw |-> kw, fn |-> None]

C(fn) == [op |-> "call", status |-> None, progress |-> {}, kw |-> {}, fn |-> fn]

\* run_alphafold_then_dock with the quality-assessment write of line 166
\* carrying the status of the stage before it.
FullPipelineStaleStatus == << W(SUBMITTED, 0, {}), W(PREDICTING_STRUCTURE, 5, {}), C("run_alphafold"), W(STRUCTURE_PREDICTED, 35, {"predicted_pdb_path", "plddt_score"}), W(STRUCTURE_PREDICTED, 35, {}), C("extract_quality_metrics"), W(PREDICTING_STRUCTURE, 45, {"quality_metrics"}), W(STRUCTURE_PREDICTED, 45, {}), C("analyze_binding_sites"), W(DOCKING, 55, {}), W(DOCKING, 55, {}), C("run_autodock_vina"), W(ANALYZING, 75, {"docking_results", "top_binding_score"}), W(ANALYZING, 75, {}), C("generate_ai_report"), W(ANALYZING, 95, {"ai_report_content"}), C("store_on_blockchain"), W(COMPLETED, 100, {"blockchain_tx_hash", "structure_hash", "report_hash"}) >>

\* run_alphafold_then_dock: its status writes and awaited stages in order
\* (workflow.py:110, 119, 136, 142, 155, 164, 166, 179, 186, 203, 215, 222,
\* 252, 265, 280, 288, 301, 307).
FullPipeline == << W(SUBMITTED, 0, {}), W(PREDICTING_STRUCTURE, 5, {}), C("run_alphafold"), W(STRUCTURE_PREDICTED, 35, {"predicted_pdb_path", "plddt_score"}), W(STRUCTURE_PREDICTED, 35, {}), C("extract_quality_metrics"), W(STRUCTURE_PREDICTED, 45, {"quality_metrics"}), W(STRUCTURE_PREDICTED, 45, {}), C("analyze_binding_sites"), W(DOCKING, 55, {}), W(DOCKING, 55, {}), C("run_autodock_vina"), W(ANALYZING, 75, {"docking_results", "top_binding_score"}), W(ANALYZING, 75, {}), C("generate_ai_report"), W(ANALYZING, 95, {"ai_report_content"}), C("store_on_blockchain"), W(COMPLETED, 100, {"blockchain_tx_hash", "structure_hash", "report_hash"}) >>

\* run_docking_only (workflow.py:353, 367, 378, 387, 400, 407, 415, 426, 432).
DockingOnly == << C("save_pdb"), W(DOCKING, 0, {"protein_pdb_path"}), C("run_autodock_vina"), W(ANALYZING, 70, {"docking_results", "top_binding_score"}), W(ANALYZING, 70, {}), C("generate_ai_report"), W(ANALYZING, 95, {"ai_report_content"}), C("store_on_blockchain"), W(COMPLETED, 100, {"blockchain_tx_hash", "structure_hash", "report_hash"}) >>

Program(job_type) == IF job_type = SEQUENCE_TO_DOCKING THEN FullPipeline ELSE DockingOnly

\* ------------------------------------------------------------ the ligands
\* A ligand payload is empty (or blank) or an SDF text.
Payloads == {"", "sdf"}

LigandBatches(m) == UNION {[1..n -> Payloads] : n \in 1..m}

\* Best affinities the engine log of a ligand can report.
Affinities == {0 - 9, 0 - 7}

\* f"ligand_{idx}"
LigandName(idx) == <<"ligand_", idx>>

\* A failure entry that reports an affinity of 0 instead of none.
ErrorEntryZeroAffinity(idx, error) == [ligand_name |-> LigandName(idx), ligand_index |-> idx, binding_affinity |-> {0}, modes |-> <<>>, error |-> error]

\* The failure entries of process_single_ligand (docking.py:384-390, 429-435).
ErrorEntry(idx, error) == [ligand_name |-> LigandName(idx), ligand_index |-> idx, binding_affinity |-> {}, modes |-> <<>>, error |-> error]

\* What run_vina_docking returns for a parsed log (docking.py:875-881).
VinaResult(a) == [binding_affinity |-> {a}, modes |-> <<[mode |-> 1, affinity |-> a]>>]

\* {"ligand_name": ..., "ligand_index": idx, **result} (docking.py:422-426).
OkEntry(idx, result) == [ligand_name |-> LigandName(idx), ligand_index |-> idx, binding_affinity |-> result.binding_affinity, modes |-> result.modes, error |-> None]

\* str(e) of what prepare_ligand raises (docking.py:291).
LigandPrepErrors == {"Ligand preparation failed"}

\* str(e) of what run_vina_docking raises: the engine exits non-zero
\* (docking.py:828), it times out (docking.py:823), or the log does not parse
\* and the DockingParseError is wrapped (docking.py:839-841).
VinaErrors == {"Vina docking failed", "Vina docking timed out", "Unexpected error during Vina execution: No valid docking modes found in Vina log file"}

\* A semaphore that admits one unit more than its counter allows.
CanAcquireOffByOne(p) == p >= 0

\* asyncio.Semaphore: acquire proceeds while the counter is positive.
CanAcquire(p) == p > 0

\* The units' results collected from the last task to the first.
GatherReversed(s, n) == [k \in 1..n |-> CHOOSE e \in s[n - k] : TRUE]

\* asyncio.gather returns the units' results in the order of the tasks, which
\* is the order of enumerate(ligand_files) (docking.py:459-481).
Gather(s, n) == [k \in 1..n |-> CHOOSE e \in s[k - 1] : TRUE]

Succeeded(rs) == {k \in 1..Len(rs) : rs[k].binding_affinity # {}}

\* any(...) where the code has all(...).
AllFailedAny(rs) == Len(rs) = 0 \/ \E k \in 1..Len(rs) : rs[k].binding_affinity = {}

\* all(all_results[i].get("binding_affinity") is None ...) (docking.py:149).
AllFailed(rs) == Len(rs) = 0 \/ \A k \in 1..Len(rs) : rs[k].binding_affinity = {}

AffinityOf(e) == CHOOSE a \in e.binding_affinity : TRUE

\* valid_results[0] after the stable sort by binding_affinity
\* (docking.py:153-154): the first entry that has the least affinity.
BestIndex(rs) == CHOOSE k \in Succeeded(rs) : \A m \in Succeeded(rs) : AffinityOf(rs[k]) < AffinityOf(rs[m]) \/ (AffinityOf(rs[k]) = AffinityOf(rs[m]) /\ k <= m)

\* The entries of rs that have an affinity, in order (docking.py:153).
ValidResults(rs) == SelectSeq(rs, LAMBDA e : e.binding_affinity # {})

\* docking_summary listing the successful entries only.
SummaryDropsFailed(rs, ligand_files, parameters) == [total_ligands |-> Len(ligand_files), successful_ligands |-> Cardinality(Succeeded(rs)), failed_ligands |-> Len(rs) - Cardinality(Succeeded(rs)), results |-> ValidResults(rs), best_score |-> rs[BestIndex(rs)].binding_affinity, best_ligand |-> rs[BestIndex(rs)].ligand_name, parameters_used |-> parameters]

\* docking_summary (docking.py:162-172), for a batch with a success.
Summary(rs, ligand_files, parameters) == [total_ligands |-> Len(ligand_files), successful_ligands |-> Cardinality(Succeeded(rs)), failed_ligands |-> Len(rs) - Cardinality(Succeeded(rs)), results |-> rs, best_score |-> rs[BestIndex(rs)].binding_affinity, best_ligand |-> rs[BestIndex(rs)].ligand_name, parameters_used |-> parameters]

\* What run_autodock_vina raises before the protein is prepared
\* (docking.py:108-126) and for a batch without a success (docking.py:150).
DockingStartErrors == {[type |-> "ValueError", msg |-> "Protein PDB file does not exist"], [type |-> "DockingError", msg |-> "Cannot create output directory"]}

ProteinPrepError == [type |-> "ProteinPreparationError", msg |-> "Protein preparation failed"]

BatchFailedError == [type |-> "DockingError", msg |-> "All ligands failed to dock. Check logs for details."]

\* Values run_alphafold hands to progress_callback, in tenths (1.0 is 10).
CallbackValues == {0 - 10, 2, 10, 40}

\* -------------------------------------------------- the parameter governor
\* A number of a parameter map: a Python int, a finite float or the float
\* infinity (what the JSON number 1e400 is read as).  v is the number in
\* tenths, so 3.5 is PFloat(35) and 8 is PInt(8).
PInt(n) == [kind |-> "int", v |-> 10 * n]

PFloat(t) == [kind |-> "float", v |-> t]

PInf == [kind |-> "inf", v |-> 0]

\* float(x): the same number as a float.
float(x) == [kind |-> IF x.kind = "inf" THEN "inf" ELSE "float", v |-> x.v]

\* int(x) raises OverflowError for an infinite float.
IntRaises(x) == x.kind = "inf"

\* int(x) of a finite number: the fraction is dropped, towards zero.
int(x) == [kind |-> "int", v |-> IF x.v >= 0 THEN (x.v \div 10) * 10 ELSE 0 - (((0 - x.v) \div 10) * 10)]

\* max(lo, min(hi, n)) on ints.
ClampInt(lo, hi, n) == PInt(Max(lo, Min(hi, n.v \div 10)))

\* dict.get(key, default)
get(d, key, default) == IF key \in DOMAIN d THEN d[key] ELSE default

\* a < b on numbers, infinity being above every finite number.
Less(a, b) == a.kind # "inf" /\ (b.kind = "inf" \/ a.v < b.v)

\* parameters.get("num_modes", parameters.get("energy_range", DEFAULT_NUM_MODES))
\* (docking.py:346-348).
NumModesSource(parameters_) == get(parameters_, "num_modes", get(parameters_, "energy_range", PInt(DEFAULT_NUM_MODES)))

\* A grid size clamped to the recommended range.
GridSizeClamped(parameters_, dim) ==
  LET x == float(get(parameters_, dim, get(parameters_, "grid_" \o dim, PFloat(DEFAULT_GRID_SIZE))))
  IN IF Less(x, PFloat(MIN_GRID_SIZE)) THEN PFloat(MIN_GRID_SIZE) ELSE IF Less(PFloat(MAX_GRID_SIZE), x) THEN PFloat(MAX_GRID_SIZE) ELSE x

\* normalized[dim] for a grid size (docking.py:320-328): read and converted,
\* not changed.
GridSize(parameters_, dim) == float(get(parameters_, dim, get(parameters_, "grid_" \o dim, PFloat(DEFAULT_GRID_SIZE))))

\* The dimensions the warning of docking.py:331-336 is logged for.
GridWarnings(n) == {dim \in {"size_x", "size_y", "size_z"} : Less(n[dim], PFloat(MIN_GRID_SIZE)) \/ Less(PFloat(MAX_GRID_SIZE), n[dim])}

\* validate_and_normalize_parameters (docking.py:303-353): the dictionary it
\* returns, or the exception int() raises.
validate_and_normalize_parameters(parameters_) ==
  IF IntRaises(get(parameters_, "exhaustiveness", PInt(DEFAULT_EXHAUSTIVENESS))) \/ IntRaises(NumModesSource(parameters_))
    THEN [raised |-> "OverflowError", value |-> {}]
    ELSE [raised |-> None, value |-> {[
           center_x |-> float(get(parameters_, "center_x", get(parameters_, "grid_center_x", PFloat(0)))),
           center_y |-> float(get(parameters_, "center_y", get(parameters_, "grid_center_y", PFloat(0)))),
           center_z |-> float(get(parameters_, "center_z", get(parameters_, "grid_center_z", PFloat(0)))),
           size_x |-> GridSize(parameters_, "size_x"),
           size_y |-> GridSize(parameters_, "size_y"),
           size_z |-> GridSize(parameters_, "size_z"),
           exhaustiveness |-> ClampInt(MIN_EXHAUSTIVENESS, MAX_EXHAUSTIVENESS, int(get(parameters_, "exhaustiveness", PInt(DEFAULT_EXHAUSTIVENESS)))),
           num_modes |-> ClampInt(MIN_NUM_MODES, MAX_NUM_MODES, int(NumModesSource(parameters_))),
           energy_range |-> float(get(parameters_, "energy_range", PFloat(DEFAULT_ENERGY_RANGE)))]}]

\* A timeout that grows with the exhaustiveness without the cap.
VinaTimeoutUncapped(exhaustiveness) == Max(BASE_DOCKING_TIMEOUT, exhaustiveness * BASE_DOCKING_TIMEOUT)

\* timeout_seconds of run_vina_docking (docking.py:812-815).
VinaTimeout(exhaustiveness) == Min(MAX_DOCKING_TIMEOUT, Max(BASE_DOCKING_TIMEOUT, exhaustiveness * BASE_DOCKING_TIMEOUT))

\* timeout_seconds of run_gnina_docking (docking.py:1069-1072).
GninaTimeout(exhaustiveness) == Min(MAX_DOCKING_TIMEOUT, Max(BASE_DOCKING_TIMEOUT, exhaustiveness * BASE_DOCKING_TIMEOUT))

\* The keys validate_and_normalize_parameters reads.
ParamKeys == {"center_x", "grid_center_x", "center_y", "grid_center_y", "center_z", "grid_center_z", "size_x", "grid_size_x", "size_y", "grid_size_y", "size_z", "grid_size_z", "exhaustiveness", "num_modes", "energy_range"}

\* Negative, zero, fractional, in-range, very large and infinite values.
ParamValues == {PInt(0 - 5), PInt(0), PFloat(35), PInt(20), PInt(150), PInf}

\* The parameter maps a job is created with: every map of at most
\* MaxParamKeys keys, and every exhaustiveness on its own.
ParameterMaps == UNION {[S -> ParamValues] : S \in {T \in SUBSET ParamKeys : Cardinality(T) <= MaxParamKeys}} \cup {[k \in {"exhaustiveness"} |-> PInt(e)] : e \in (0 - 2)..MaxExhaustivenessInput}

\* ---------------------------------------------------------- the log parser
\* A whitespace-separated part of a line, by what the parser asks of it:
\* str.isdigit(), and the number float() reads from it in tenths ({} when
\* float() raises ValueError).
Word == [isdigit |-> FALSE, num |-> {}]

Digits(k) == [isdigit |-> TRUE, num |-> {10 * k}]

Number(t) == [isdigit |-> FALSE, num |-> {t}]

\* A line of a log, by what the parser asks of it: whether it contains
\* "mode |" and "affinity", whether it contains "-----+------------", whether
\* it contains "-----", and line.split().
HeaderText == [header |-> TRUE, sep |-> FALSE, dashes |-> FALSE, parts |-> <<Word, Word, Word, Word, Word, Word, Word, Word>>]

UnitsText == [header |-> FALSE, sep |-> FALSE, dashes |-> FALSE, parts |-> <<Word, Word, Word, Word, Word, Word, Word>>]

SeparatorText == [header |-> FALSE, sep |-> TRUE, dashes |-> TRUE, parts |-> <<Word>>]

BlankText == [header |-> FALSE, sep |-> FALSE, dashes |-> FALSE, parts |-> <<>>]

OtherText == [header |-> FALSE, sep |-> FALSE, dashes |-> FALSE, parts |-> <<Word, Word, Word, Word>>]

\* "   k   a   0.000   0.000"
Row(k, a) == [header |-> FALSE, sep |-> FALSE, dashes |-> FALSE, parts |-> <<Digits(k), Number(a), Number(0), Number(0)>>]

\* "   1   n/a   0.000   0.000", "   1   -7.0" and "  -1  -7.0  0.000  0.000"
MalformedRows == {[header |-> FALSE, sep |-> FALSE, dashes |-> FALSE, parts |-> <<Digits(1), Word, Number(0), Number(0)>>], [header |-> FALSE, sep |-> FALSE, dashes |-> FALSE, parts |-> <<Digits(1), Number(0 - 70)>>], [header |-> FALSE, sep |-> FALSE, dashes |-> FALSE, parts |-> <<Number(0 - 10), Number(0 - 70), Number(0), Number(0)>>]}

LogLines == {HeaderText, UnitsText, SeparatorText, BlankText, OtherText} \cup {Row(k, a) : k \in 1..2, a \in {0 - 85, 0 - 70}} \cup MalformedRows

\* The contents of a log file as its lines; the empty file has none.
LogContents == UNION {[1..n -> LogLines] : n \in 0..MaxLogLines}

\* The line starts the results table: docking.py:961 for Vina, which also
\* takes the rule under the header for it, docking.py:1115 for Gnina.
StartsTable(line, tool_name) == line.header \/ (tool_name = "Vina" /\ line.sep)

\* The try block of docking.py:972-979 appends a mode: four parts or more,
\* the first one digits, the next three read by float().
ParsesAsMode(line) == Len(line.parts) >= 4 /\ line.parts[1].isdigit /\ \A j \in 2..4 : line.parts[j].num # {}

ModeOf(line) == [mode |-> (CHOOSE v \in line.parts[1].num : TRUE) \div 10, affinity |-> CHOOSE v \in line.parts[2].num : TRUE, rmsd_lb |-> CHOOSE v \in line.parts[3].num : TRUE, rmsd_ub |-> CHOOSE v \in line.parts[4].num : TRUE]

\* The loop over the lines (docking.py:959-984, 1114-1129) from line i on.
RECURSIVE ParseLines(_, _, _, _, _)
ParseLines(lines, i, parsing_results, modes, tool_name) ==
  IF i > Len(lines) THEN modes
  ELSE IF StartsTable(lines[i], tool_name) THEN ParseLines(lines, i + 1, TRUE, modes, tool_name)
  ELSE IF lines[i].dashes /\ parsing_results /\ modes = <<>> THEN ParseLines(lines, i + 1, parsing_results, modes, tool_name)
  ELSE IF parsing_results /\ lines[i].parts # <<>> /\ ParsesAsMode(lines[i]) THEN ParseLines(lines, i + 1, parsing_results, Append(modes, ModeOf(lines[i])), tool_name)
  ELSE ParseLines(lines, i + 1, parsing_results, modes, tool_name)

\* The parser reading rows from the first line on, header or not.
ParseModesWithoutHeader(content_, tool_name) ==
  LET modes == ParseLines(content_, 1, TRUE, <<>>, tool_name)
  IN IF modes = <<>> THEN [raised |-> "DockingParseError", modes |-> <<>>] ELSE [raised |-> None, modes |-> modes]

\* _parse_docking_modes_from_content (docking.py:943-989) and the same loop
\* of parse_gnina_log (docking.py:1111-1132).
ParseModes(content_, tool_name) ==
  LET modes == ParseLines(content_, 1, FALSE, <<>>, tool_name)
  IN IF modes = <<>> THEN [raised |-> "DockingParseError", modes |-> <<>>] ELSE [raised |-> None, modes |-> modes]

\* A ratio of two integers, the second one positive.
Frac(n, d) == [num |-> n, den |-> d]

\* max(0.0, min(1.0, f))
ClampUnit(f) == Frac(Max(0, Min(f.den, f.num)), f.den)

\* f <= g
LeqFrac(f, g) == f.num * g.den <= g.num * f.den

\* 0.0 <= f <= 1.0
InUnit(f) == LeqFrac(Frac(0, 1), f) /\ LeqFrac(f, Frac(1, 1))

\* half of f + three tenths of g + a fifth of h (docking.py:918-922).
Weighted(f, g, h) == Frac(5 * f.num * g.den * h.den + 3 * g.num * f.den * h.den + 2 * h.num * f.den * g.den, 10 * f.den * g.den * h.den)

\* [m["affinity"] for m in modes[:POSE_CONSISTENCY_TOP_N]]
TopAffinities(modes) == {modes[k].affinity : k \in 1..Min(Len(modes), POSE_CONSISTENCY_TOP_N)}

SetMin(S) == CHOOSE x \in S : \A y \in S : x <= y

SetMax(S) == CHOOSE x \in S : \A y \in S : x >= y

Abs(x) == IF x >= 0 THEN x ELSE 0 - x

\* 1.0 - (max - min) / abs(min) of the top affinities, clamped, or 0.0 when
\* the least of them is 0 (docking.py:893-897, 1011-1015).
TopNConsistency(modes) ==
  LET lo == SetMin(TopAffinities(modes))
      hi == SetMax(TopAffinities(modes))
  IN IF lo = 0 THEN Frac(0, 1) ELSE ClampUnit(Frac(Abs(lo) - (hi - lo), Abs(lo)))

\* _calculate_pose_consistency (docking.py:995-1015).
calculate_pose_consistency(modes) == IF Len(modes) <= 1 THEN Frac(0, 1) ELSE TopNConsistency(modes)

\* rmsd_consistency of a list of several modes (docking.py:910-915): the
\* range of the rmsd_lb values, in tenths, against 5.0.
RmsdConsistency(modes) ==
  LET values == {modes[k].rmsd_lb : k \in 1..Len(modes)}
  IN ClampUnit(Frac(50 - (SetMax(values) - SetMin(values)), 50))

\* spread_consistency of a list of several modes (docking.py:900-907) is
\* max(0.0, min(1.0, 1.0 - cv / 50.0)) with cv from a standard deviation, a
\* square root: it is 1.0 when all affinities are equal, and otherwise kept
\* as the interval the clamp confines it to.
SpreadConsistency(modes) ==
  IF \A j, k \in 1..Len(modes) : modes[j].affinity = modes[k].affinity
    THEN [lo |-> Frac(1, 1), hi |-> Frac(1, 1)]
    ELSE [lo |-> Frac(0, 1), hi |-> Frac(1, 1)]

\* The pose quality fields parse_vina_log and parse_gnina_log add to their
\* result (docking.py:883-938, 1146-1201); pose_consistency is the interval
\* that follows from the one of spread_consistency.
PoseQuality(modes) ==
  IF Len(modes) > 1
    THEN [pose_consistency |-> [lo |-> Weighted(TopNConsistency(modes), SpreadConsistency(modes).lo, RmsdConsistency(modes)), hi |-> Weighted(TopNConsistency(modes), SpreadConsistency(modes).hi, RmsdConsistency(modes))],
          top_n_consistency |-> TopNConsistency(modes),
          spread_consistency |-> SpreadConsistency(modes),
          rmsd_consistency |-> RmsdConsistency(modes)]
    ELSE [pose_consistency |-> [lo |-> Frac(1, 1), hi |-> Frac(1, 1)],
          top_n_consistency |-> Frac(1, 1),
          spread_consistency |-> [lo |-> Frac(1, 1), hi |-> Frac(1, 1)],
          rmsd_consistency |-> Frac(1, 1)]

\* parse_vina_log (docking.py:862-881) and parse_gnina_log
\* (docking.py:1107-1141) on the content read from the file: the result with
\* the fields computed from the modes, or the DockingParseError.
ParseLog(content_, tool_name) ==
  IF content_ = <<>> THEN [raised |-> "DockingParseError", value |-> {}]
  ELSE LET r == ParseModes(content_, tool_name)
       IN IF r.raised # None THEN [raised |-> r.raised, value |-> {}]
          ELSE [raised |-> None, value |-> {[binding_affinity |-> r.modes[1].affinity, modes |-> r.modes, num_poses |-> Len(r.modes), affinity_range |-> IF Len(r.modes) > 1 THEN r.modes[Len(r.modes)].affinity - r.modes[1].affinity ELSE 0, quality |-> PoseQuality(r.modes)]}]

\* ------------------------------------------------------- pose clustering
\* int(x) of a quotient n / d with d > 0 (docking.py:685): the quotient
\* truncated toward zero.
Trunc(n, d) == IF n >= 0 THEN n \div d ELSE 0 - ((0 - n) \div d)

\* a < b on the pairs that serve as sort keys.
KeyLess(a, b) == a[1] < b[1] \/ (a[1] = b[1] /\ a[2] < b[2])

\* list.sort(key=...) and sorted(...), given the key of every element:
\* Python's sort is stable, so an element goes after the elements of smaller
\* key and after those of equal key that came before it.
StableSort(s, keys) ==
  LET pos(k) == 1 + Cardinality({j \in DOMAIN s : KeyLess(keys[j], keys[k]) \/ (keys[j] = keys[k] /\ j < k)})
  IN [i \in DOMAIN s |-> s[CHOOSE k \in DOMAIN s : pos(k) = i]]

\* sorted(affinities)
Sorted(values) == StableSort(values, [k \in DOMAIN values |-> <<values[k], 0>>])

\* Twice statistics.median of a sorted list that is not empty, so that the
\* mean of the two middle values stays an integer.
TwiceMedian(sorted) ==
  LET n == Len(sorted)
  IN IF n % 2 = 1 THEN 2 * sorted[(n + 1) \div 2] ELSE sorted[n \div 2] + sorted[n \div 2 + 1]

\* q3 - q1 of the affinities (docking.py:674-676), in twentieths of kcal/mol
\* for affinities in tenths.
InterQuartileRange(affinities) ==
  LET n == Len(affinities)
      sorted == Sorted(affinities)
  IN IF n > 1 THEN TwiceMedian(SubSeq(sorted, (n + 1) \div 2 + 1, n)) - TwiceMedian(SubSeq(sorted, 1, n \div 2))
     ELSE 0

\* max(0.5, min(2.0, 2 * iqr / (n ** (1/3)))) (docking.py:677) in hundredths
\* of kcal/mol, for iqr in twentieths: the two clamps are decided exactly by
\* comparing cubes, and a value between them is rounded down to a hundredth.
FreedmanDiaconis(iqr, n) ==
  IF iqr * iqr * iqr >= 8000 * n THEN 200
  ELSE IF iqr * iqr * iqr <= 125 * n THEN 50
  ELSE CHOOSE m \in 50..200 : m * m * m * n <= 1000 * iqr * iqr * iqr /\ (m + 1) * (m + 1) * (m + 1) * n > 1000 * iqr * iqr * iqr

\* bin_size (docking.py:664-677) in hundredths of kcal/mol, for affinities in
\* tenths.
BinSize(affinities) ==
  LET values == {affinities[k] : k \in DOMAIN affinities}
      affinity_range == SetMax(values) - SetMin(values)
      iqr == InterQuartileRange(affinities)
  IN IF affinity_range < 20 THEN 50
     ELSE IF affinity_range < 50 THEN 100
     ELSE IF iqr > 0 THEN FreedmanDiaconis(iqr, Len(affinities)) ELSE 100

\* cluster_id = int(affinity / bin_size) (docking.py:685).
ClusterId(affinity, bin_size) == Trunc(10 * affinity, bin_size)

RECURSIVE SeqSum(_)
\* statistics.mean and statistics.stdev add the values up.
SeqSum(s) == IF s = <<>> THEN 0 ELSE Head(s) + SeqSum(Tail(s))

\* min(1.0, cluster_std / 2.0) (docking.py:702, 706) in hundredths of
\* kcal/mol, two hundred of them making 1.0: the sample standard deviation of
\* the affinities, rounded down to a hundredth.
CappedStd(cluster_affinities) ==
  LET n == Len(cluster_affinities)
      total == SeqSum(cluster_affinities)
      squares == SeqSum([k \in 1..n |-> (n * cluster_affinities[k] - total) * (n * cluster_affinities[k] - total)])
      variance == IF n > 1 THEN (100 * squares) \div (n * n * (n - 1)) ELSE 0
  IN IF variance >= 200 * 200 THEN 200
     ELSE CHOOSE r \in 0..200 : r * r <= variance /\ variance < (r + 1) * (r + 1)

\* cluster_quality (docking.py:706) in thousandths.
ClusterQuality(cluster_affinities) == Min(5, Len(cluster_affinities)) * (200 - CappedStd(cluster_affinities))

\* The loop over sorted(clusters.keys()) with the sort of each cluster
\* (docking.py:695-697, 734-736): clusters by ascending id, the members of one
\* cluster by ascending affinity.
ByClusterThenAffinity(x) == <<x.cluster_id, x.binding_affinity>>

\* The final sort that keeps only the affinity of its key.
AffinityOnly(x) == <<0, x.binding_affinity>>

\* The key of the final sort (docking.py:739-742).
ByQualityThenAffinity(x) == <<0 - x.quality_score, x.binding_affinity>>

\* perform_pose_clustering (docking.py:644-744).
perform_pose_clustering(results_) ==
  IF results_ = <<>> THEN <<>>
  ELSE LET bin_size == BinSize([k \in DOMAIN results_ |-> results_[k].binding_affinity])
           tagged == [k \in DOMAIN results_ |-> [ligand_name |-> results_[k].ligand_name, binding_affinity |-> results_[k].binding_affinity, cluster_id |-> ClusterId(results_[k].binding_affinity, bin_size), cluster_bin_center |-> ClusterId(results_[k].binding_affinity, bin_size) * bin_size + bin_size \div 2]]
           grouped == StableSort(tagged, [k \in DOMAIN tagged |-> ByClusterThenAffinity(tagged[k])])
           members(c) == SelectSeq(grouped, LAMBDA r : r.cluster_id = c)
           affinitiesOf(c) == [k \in DOMAIN members(c) |-> members(c)[k].binding_affinity]
           clustered_ == [k \in DOMAIN grouped |-> [ligand_name |-> grouped[k].ligand_name, binding_affinity |-> grouped[k].binding_affinity, cluster_id |-> grouped[k].cluster_id, cluster_bin_center |-> grouped[k].cluster_bin_center, size |-> Len(members(grouped[k].cluster_id)), quality_score |-> ClusterQuality(affinitiesOf(grouped[k].cluster_id)), bin_size |-> bin_size]]
       IN StableSort(clustered_, [k \in DOMAIN clustered_ |-> ByQualityThenAffinity(clustered_[k])])


\* ----------------------------------------------------------------- state
VARIABLES job, phase, ip, exc, runner, retries, retryReqs, args, loc, pdbFile, trail, written, dphase, protPreps, protein_pdbqt, unit, slot, permits, finished, all_results, parameters, normalized, raised, engine, timeout_seconds, content, parsed, results, clustered, use_gpu_docking, gnina_installed, availability, req, running, coords, docking_input, cache, now, returned, calls

vars == <<job, phase, ip, exc, runner, retries, retryReqs, args, loc, pdbFile, trail, written, dphase, protPreps, protein_pdbqt, unit, slot, permits, finished, all_results, parameters, normalized, raised, engine, timeout_seconds, content, parsed, results, clustered, use_gpu_docking, gnina_installed, availability, req, running, coords, docking_input, cache, now, returned, calls>>

wfVars == <<job, phase, ip, exc, runner, retries, retryReqs, args, loc, pdbFile, trail, written>>

dockVars == <<dphase, protPreps, protein_pdbqt, unit, slot, permits, finished, all_results>>

\* The argument and the outcome of one call of
\* validate_and_normalize_parameters, of the docking executor and of the log
\* parser.
fnVars == <<parameters, normalized, raised, engine, timeout_seconds, content, parsed, results, clustered, use_gpu_docking, gnina_installed, availability, req, running, coords, docking_input, cache, now, returned, calls>>

\* The argument and the outcome of one call of perform_pose_clustering.
clusterVars == <<results, clustered>>

\* settings.USE_GPU_DOCKING (docking.py:38), whether `gnina --version` would
\* succeed on this host, and what _gnina_available has returned ({} while its
\* body has not run to its end).
selectVars == <<use_gpu_docking, gnina_installed, availability>>

\* The retry_job handlers in flight, each with the job its session has
\* loaded, and the handlers whose background task is executing the workflow.
retryVars == <<req, running>>

\* binding_site_results["binding_site_coordinates"] ({} for None) and the
\* parameters the full pipeline hands to run_autodock_vina.
siteVars == <<coords, docking_input>>

\* _analysis_cache (ai_report.py:42) as the list of its entries in the order
\* of the dict, the clock datetime.now().timestamp() reads, in seconds, and
\* what the last _get_cached_analysis returned, with the age it computed, and
\* the number of calls of the two functions that are followed.
cacheVars == <<cache, now, returned, calls>>

auxVars == <<clusterVars, selectVars, retryVars, siteVars, cacheVars>>

\* Locals of a workflow execution before its first stage has returned.
NoLocals == [predicted_pdb |-> None, plddt_score |-> None, pdb_path |-> None, docking_results |-> {}, ai_report |-> None, blockchain_tx |-> None]

\* What the last successful status write of the execution was given.
NothingWritten == [status |-> None, progress |-> {}, message |-> None]

\* The arguments create_job hands to the workflow (routes/jobs.py:78-93).
FirstArgs(job_type, ligand_files) == [ligand_files |-> ligand_files, parameters |-> "params", sequence |-> (IF job_type = SEQUENCE_TO_DOCKING THEN "sequence" ELSE None), protein_pdb |-> (IF job_type = DOCKING_ONLY THEN "pdb" ELSE None)]

\* perform_pose_clustering has not been called.
NoCluster ==
  /\ results = <<>>
  /\ clustered = {}

\* GPU docking is not configured.
NoSelect ==
  /\ use_gpu_docking = FALSE
  /\ gnina_installed = FALSE
  /\ availability = {}

\* No retry request is in flight.
NoRetry ==
  /\ req = <<>>
  /\ running = {}

\* No binding site has been analysed.
NoSite ==
  /\ coords = {}
  /\ docking_input = {}

\* The module of the AI report has been imported and nothing is cached.
NoCache ==
  /\ cache = <<>>
  /\ now = 0
  /\ returned = {}
  /\ calls = 0

NoAux ==
  /\ NoCluster
  /\ NoSelect
  /\ NoRetry
  /\ NoSite
  /\ NoCache

\* No function of the docking service has been called.
NoCall ==
  /\ NoAux
  /\ parameters = <<>>
  /\ normalized = {}
  /\ raised = None
  /\ engine = None
  /\ timeout_seconds = {}
  /\ content = <<>>
  /\ parsed = {}

\* The job has been created and its workflow handed to a launcher.
InitWith(batches, runners) ==
  /\ \E jt \in JobType, lf \in batches : job = NewJob(jt, lf) /\ args = FirstArgs(jt, lf)
  /\ runner \in runners
  /\ phase = "running"
  /\ ip = 1
  /\ exc = NoExc
  /\ retries = 0
  /\ retryReqs = 0
  /\ loc = NoLocals
  /\ pdbFile = None
  /\ trail = <<>>
  /\ written = NothingWritten
  /\ dphase = "idle"
  /\ protPreps = 0
  /\ protein_pdbqt = None
  /\ unit = <<>>
  /\ slot = <<>>
  /\ permits = 0
  /\ finished = <<>>
  /\ all_results = <<>>
  /\ NoCall

\* The launcher is either the request's background tasks or a Celery task.
Init == InitWith(LigandBatches(MaxJobLigands), {"background", "celery"})

\* One execution, launched by create_job.
InitDock == InitWith(LigandBatches(MaxLigands), {"background"})

Instr == Program(job.job_type)[ip]

NumLigands == Len(args.ligand_files)

\* The keyword arguments of a status write, from the workflow's locals.
KwArgs(kw) == [k \in kw |-> CASE k = "predicted_pdb_path" -> loc.predicted_pdb [] k = "plddt_score" -> loc.plddt_score [] k = "protein_pdb_path" -> loc.pdb_path [] k = "docking_results" -> loc.docking_results [] k = "top_binding_score" -> UNION {s.best_score : s \in loc.docking_results} [] k = "ai_report_content" -> loc.ai_report [] k = "blockchain_tx_hash" -> loc.blockchain_tx [] k = "structure_hash" -> "structure_hash" [] k = "report_hash" -> "report_hash" [] OTHER -> "metrics"]

\* The statuses persisted by the running execution, repeats merged.
Visit(t, status) == IF t # <<>> /\ t[Len(t)] = status THEN t ELSE Append(t, status)

\* The next instruction, or the end of the workflow body.
Advance ==
  /\ ip' = IF ip = Len(Program(job.job_type)) THEN ip ELSE ip + 1
  /\ phase' = IF ip = Len(Program(job.job_type)) THEN "done" ELSE "running"

Raise(e) ==
  /\ exc' = e
  /\ phase' = "except"
  /\ UNCHANGED ip

\* One "await update_job_status(...)" of a workflow body.
StatusWrite ==
  /\ phase = "running"
  /\ Instr.op = "write"
  /\ \/ /\ job' = update_job_status(job, Instr.status, None, Instr.progress, KwArgs(Instr.kw))
        /\ written' = [status |-> Instr.status, progress |-> Instr.progress, message |-> "progress_message"]
        /\ trail' = Visit(trail, Instr.status)
        /\ Advance
        /\ UNCHANGED exc
     \/ /\ \E e \in DbErrors : Raise(e)
        /\ UNCHANGED <<job, written, trail>>
  /\ UNCHANGED <<runner, retries, retryReqs, args, loc, pdbFile>>
  /\ UNCHANGED dockVars
  /\ UNCHANGED fnVars

\* A collaborator stage of the workflow body returns what its signature
\* declares (workflow.py:136, 164, 186, 280, 301, 353-365, 407, 426).
StageReturn ==
  /\ phase = "running"
  /\ Instr.op = "call"
  /\ Instr.fn # "run_autodock_vina"
  /\ loc' = CASE Instr.fn = "save_pdb" -> [loc EXCEPT !.pdb_path = "uploads/protein.pdb"] [] Instr.fn = "run_alphafold" -> [loc EXCEPT !.predicted_pdb = "predicted.pdb", !.plddt_score = "plddt"] [] Instr.fn = "generate_ai_report" -> [loc EXCEPT !.ai_report = "report"] [] Instr.fn = "store_on_blockchain" -> [loc EXCEPT !.blockchain_tx = "tx_hash"] [] OTHER -> loc
  /\ pdbFile' = IF Instr.fn = "save_pdb" THEN args.protein_pdb ELSE pdbFile
  /\ Advance
  /\ UNCHANGED <<job, exc, runner, retries, retryReqs, args, trail, written>>
  /\ UNCHANGED dockVars
  /\ UNCHANGED fnVars

\* A collaborator stage of the workflow body raises.
StageRaise ==
  /\ phase = "running"
  /\ Instr.op = "call"
  /\ Instr.fn # "run_autodock_vina"
  /\ Raise(StageError(Instr.fn))
  /\ UNCHANGED <<job, runner, retries, retryReqs, args, loc, pdbFile, trail, written>>
  /\ UNCHANGED dockVars
  /\ UNCHANGED fnVars

\* progress_callback(status, progress) called by the structure prediction
\* (workflow.py:127-134); p is the progress in tenths.  A failing write leaves
\* run_alphafold as its wrapped error (alphafold.py:103-105).
ProgressCallback(p) ==
  /\ phase = "running"
  /\ Instr.op = "call"
  /\ Instr.fn = "run_alphafold"
  /\ \/ /\ job' = update_job_status(job, PREDICTING_STRUCTURE, None, {5 + 3 * p}, <<>>)
        /\ written' = [status |-> PREDICTING_STRUCTURE, progress |-> {5 + 3 * p}, message |-> "progress_message"]
        /\ trail' = Visit(trail, PREDICTING_STRUCTURE)
        /\ UNCHANGED <<phase, ip, exc>>
     \/ /\ Raise(StageError("run_alphafold"))
        /\ UNCHANGED <<job, written, trail>>
  /\ UNCHANGED <<runner, retries, retryReqs, args, loc, pdbFile>>
  /\ UNCHANGED dockVars
  /\ UNCHANGED fnVars

\* The except clause letting the error of its FAILED write replace the
\* exception it handles.
HandleFailureRaisesStatusError ==
  /\ phase = "except"
  /\ \/ /\ job' = update_job_status(job, FAILED, exc.msg, {}, <<>>)
        /\ trail' = Visit(trail, FAILED)
        /\ written' = [status |-> FAILED, progress |-> {}, message |-> None]
        /\ UNCHANGED exc
     \/ /\ \E e \in DbErrors : exc' = e
        /\ UNCHANGED <<job, trail, written>>
  /\ phase' = "raised"
  /\ UNCHANGED <<ip, runner, retries, retryReqs, args, loc, pdbFile>>
  /\ UNCHANGED dockVars
  /\ UNCHANGED fnVars

\* The except clause of both workflow bodies (workflow.py:319-329, 444-454):
\* the FAILED write, whose own failure is only logged, then the re-raise.
HandleFailure ==
  /\ phase = "except"
  /\ \/ /\ job' = update_job_status(job, FAILED, exc.msg, {}, <<>>)
        /\ trail' = Visit(trail, FAILED)
        /\ written' = [status |-> FAILED, progress |-> {}, message |-> None]
     \/ UNCHANGED <<job, trail, written>>
  /\ phase' = "raised"
  /\ UNCHANGED <<ip, exc, runner, retries, retryReqs, args, loc, pdbFile>>
  /\ UNCHANGED dockVars
  /\ UNCHANGED fnVars

\* A fresh execution of the workflow body with the given arguments.
StartExecution(a) ==
  /\ args' = a
  /\ phase' = "running"
  /\ ip' = 1
  /\ exc' = NoExc
  /\ loc' = NoLocals
  /\ trail' = <<>>
  /\ written' = NothingWritten

\* The background task of the request ends, normally or with the exception.
BackgroundTaskEnd ==
  /\ runner = "background"
  /\ phase \in {"done", "raised"}
  /\ phase' = "idle"
  /\ UNCHANGED <<job, ip, exc, retries, retryReqs, runner, args, loc, pdbFile, trail, written>>
  /\ UNCHANGED dockVars
  /\ UNCHANGED fnVars

\* The Celery task returns the workflow's result (queue.py:55-61, 81-87).
CeleryTaskReturn ==
  /\ runner = "celery"
  /\ phase = "done"
  /\ phase' = "idle"
  /\ UNCHANGED <<job, ip, exc, retries, retryReqs, runner, args, loc, pdbFile, trail, written>>
  /\ UNCHANGED dockVars
  /\ UNCHANGED fnVars

\* self.retry(exc=e, countdown=...) (queue.py:66-68, 92-94): the task runs
\* again with the same arguments.
CeleryTaskRetry ==
  /\ runner = "celery"
  /\ phase = "raised"
  /\ Transient(exc) /\ retries < max_retries
  /\ retries' = retries + 1
  /\ StartExecution(args)
  /\ UNCHANGED <<job, retryReqs, runner, pdbFile>>
  /\ UNCHANGED dockVars
  /\ UNCHANGED fnVars

\* raise TaskError(...) (queue.py:71, 97).
CeleryTaskFail ==
  /\ runner = "celery"
  /\ phase = "raised"
  /\ ~(Transient(exc) /\ retries < max_retries)
  /\ phase' = "idle"
  /\ UNCHANGED <<job, ip, exc, retries, retryReqs, runner, args, loc, pdbFile, trail, written>>
  /\ UNCHANGED dockVars
  /\ UNCHANGED fnVars

\* retry_job without its check of the job's status.
RetryAcceptedAnyStatus(j, file) == j.ligand_files # <<>> /\ Truthy(j.docking_parameters) /\ (j.job_type = SEQUENCE_TO_DOCKING => Truthy(j.protein_sequence)) /\ (j.job_type = DOCKING_ONLY => Truthy(j.protein_pdb_path) /\ file # None)

\* The checks of retry_job (routes/jobs.py:225-253).
RetryAccepted(j, file) == j.status = FAILED /\ j.ligand_files # <<>> /\ Truthy(j.docking_parameters) /\ (j.job_type = SEQUENCE_TO_DOCKING => Truthy(j.protein_sequence)) /\ (j.job_type = DOCKING_ONLY => Truthy(j.protein_pdb_path) /\ file # None)

\* The arguments retry_job hands to the workflow (routes/jobs.py:262-277).
RetryArgs(j, file) == [ligand_files |-> j.ligand_files, parameters |-> j.docking_parameters, sequence |-> (IF j.job_type = SEQUENCE_TO_DOCKING THEN j.protein_sequence ELSE None), protein_pdb |-> (IF j.job_type = DOCKING_ONLY THEN file ELSE None)]

\* POST /jobs/{job_id}/retry, accepted (routes/jobs.py:204-278).  The request
\* arrives when no execution of the job is pending.  job.progress and
\* job.progress_message are set on the instance but are no columns.
RetryJob ==
  /\ retryReqs < MaxRetryRequests
  /\ phase = "idle"
  /\ RetryAccepted(job, pdbFile)
  /\ job' = [job EXCEPT !.status = SUBMITTED, !.error_message = None]
  /\ retryReqs' = retryReqs + 1
  /\ runner' = "background"
  /\ StartExecution(RetryArgs(job, pdbFile))
  /\ UNCHANGED <<retries, pdbFile>>
  /\ UNCHANGED dockVars
  /\ UNCHANGED fnVars

\* ---------------------------------------------------------- the docking run
\* run_autodock_vina up to the call of prepare_protein (docking.py:107-132).
DockingStart ==
  /\ phase = "running"
  /\ Instr.op = "call"
  /\ Instr.fn = "run_autodock_vina"
  /\ dphase = "idle"
  /\ \/ /\ \E e \in DockingStartErrors : Raise(e)
        /\ UNCHANGED <<dphase, protPreps>>
     \/ /\ dphase' = "protein"
        /\ protPreps' = protPreps + 1
        /\ UNCHANGED <<phase, ip, exc>>
  /\ UNCHANGED <<job, runner, retries, retryReqs, args, loc, pdbFile, trail, written>>
  /\ UNCHANGED <<protein_pdbqt, unit, slot, permits, finished, all_results>>
  /\ UNCHANGED fnVars

\* run_autodock_vina going on to the ligands after a failed preparation.
ProteinPreparedLenient ==
  /\ dphase = "protein"
  /\ dphase' = "ligands"
  /\ protein_pdbqt' \in {"protein.pdbqt", None}
  /\ unit' = [i \in 0..(NumLigands - 1) |-> "waiting"]
  /\ slot' = [i \in 0..(NumLigands - 1) |-> {}]
  /\ permits' = MAX_PARALLEL_LIGANDS
  /\ UNCHANGED <<phase, ip, exc, protPreps>>
  /\ UNCHANGED <<job, runner, retries, retryReqs, args, loc, pdbFile, trail, written, finished, all_results>>
  /\ UNCHANGED fnVars

\* prepare_protein returns and process_ligands_parallel creates the units
\* (docking.py:132-147, 447-462), or it raises (docking.py:134-138).
ProteinPrepared ==
  /\ dphase = "protein"
  /\ \/ /\ dphase' = "ligands"
        /\ protein_pdbqt' = "protein.pdbqt"
        /\ unit' = [i \in 0..(NumLigands - 1) |-> "waiting"]
        /\ slot' = [i \in 0..(NumLigands - 1) |-> {}]
        /\ permits' = MAX_PARALLEL_LIGANDS
        /\ UNCHANGED <<phase, ip, exc, protPreps>>
     \/ /\ Raise(ProteinPrepError)
        /\ dphase' = "idle"
        /\ protPreps' = 0
        /\ UNCHANGED <<protein_pdbqt, unit, slot, permits>>
  /\ UNCHANGED <<job, runner, retries, retryReqs, args, loc, pdbFile, trail, written, finished, all_results>>
  /\ UNCHANGED fnVars

\* A unit enters process_single_ligand, through the semaphore when the batch
\* has several ligands (docking.py:447-457).  An empty payload is answered at
\* once (docking.py:382-390); otherwise prepare_ligand is awaited.
UnitStart(i) ==
  /\ dphase = "ligands"
  /\ unit[i] = "waiting"
  /\ NumLigands = 1 \/ CanAcquire(permits)
  /\ IF args.ligand_files[i + 1] = ""
       THEN /\ unit' = [unit EXCEPT ![i] = "done"]
            /\ slot' = [slot EXCEPT ![i] = {ErrorEntry(i, "Empty ligand content")}]
            /\ finished' = Append(finished, i)
            /\ UNCHANGED permits
       ELSE /\ unit' = [unit EXCEPT ![i] = "prepare"]
            /\ permits' = IF NumLigands = 1 THEN permits ELSE permits - 1
            /\ UNCHANGED <<slot, finished>>
  /\ UNCHANGED wfVars
  /\ UNCHANGED <<dphase, protPreps, protein_pdbqt, all_results>>
  /\ UNCHANGED fnVars

\* The unit leaves process_single_ligand with its entry and releases the
\* semaphore.
UnitDone(i, entry) ==
  /\ unit' = [unit EXCEPT ![i] = "done"]
  /\ slot' = [slot EXCEPT ![i] = {entry}]
  /\ finished' = Append(finished, i)
  /\ permits' = IF NumLigands = 1 THEN permits ELSE permits + 1

\* prepare_ligand returns or raises (docking.py:397, 427-435).
UnitPrepared(i) ==
  /\ dphase = "ligands"
  /\ unit[i] = "prepare"
  /\ \/ /\ unit' = [unit EXCEPT ![i] = "dock"]
        /\ UNCHANGED <<slot, permits, finished>>
     \/ \E e \in LigandPrepErrors : UnitDone(i, ErrorEntry(i, e))
  /\ UNCHANGED wfVars
  /\ UNCHANGED <<dphase, protPreps, protein_pdbqt, all_results>>
  /\ UNCHANGED fnVars

\* run_vina_docking returns the parsed result or raises (docking.py:414-435).
UnitDocked(i) ==
  /\ dphase = "ligands"
  /\ unit[i] = "dock"
  /\ \/ \E a \in Affinities : UnitDone(i, OkEntry(i, VinaResult(a)))
     \/ \E e \in VinaErrors : UnitDone(i, ErrorEntry(i, e))
  /\ UNCHANGED wfVars
  /\ UNCHANGED <<dphase, protPreps, protein_pdbqt, all_results>>
  /\ UNCHANGED fnVars

\* All units are done: process_ligands_parallel returns (docking.py:449-450,
\* 464-481).
LigandsGathered ==
  /\ dphase = "ligands"
  /\ \A i \in DOMAIN unit : unit[i] = "done"
  /\ all_results' = Gather(slot, NumLigands)
  /\ dphase' = "gathered"
  /\ unit' = <<>>
  /\ slot' = <<>>
  /\ permits' = 0
  /\ UNCHANGED wfVars
  /\ UNCHANGED <<protPreps, protein_pdbqt, finished>>
  /\ UNCHANGED fnVars

\* The rest of run_autodock_vina (docking.py:149-181): the batch-level
\* failure or the summary, which the workflow body keeps as docking_results.
DockingSummarize ==
  /\ dphase = "gathered"
  /\ IF AllFailed(all_results)
       THEN /\ Raise(BatchFailedError)
            /\ UNCHANGED loc
       ELSE /\ loc' = [loc EXCEPT !.docking_results = {Summary(all_results, args.ligand_files, args.parameters)}]
            /\ Advance
            /\ UNCHANGED exc
  /\ dphase' = "idle"
  /\ protPreps' = 0
  /\ protein_pdbqt' = None
  /\ finished' = <<>>
  /\ all_results' = <<>>
  /\ UNCHANGED <<job, runner, retries, retryReqs, args, pdbFile, trail, written>>
  /\ UNCHANGED <<unit, slot, permits>>
  /\ UNCHANGED fnVars

Next ==
  \/ StatusWrite
  \/ StageReturn
  \/ StageRaise
  \/ \E p \in CallbackValues : ProgressCallback(p)
  \/ HandleFailure
  \/ BackgroundTaskEnd
  \/ CeleryTaskReturn
  \/ CeleryTaskRetry
  \/ CeleryTaskFail
  \/ RetryJob
  \/ DockingStart
  \/ ProteinPrepared
  \/ \E i \in DOMAIN unit : UnitStart(i)
  \/ \E i \in DOMAIN unit : UnitPrepared(i)
  \/ \E i \in DOMAIN unit : UnitDocked(i)
  \/ LigandsGathered
  \/ DockingSummarize

Spec == Init /\ [][Next]_vars

\* A step that takes an execution or its launcher forward: a status write
\* returns or raises, a collaborator returns or raises, the except clause
\* runs, the launcher acts on the outcome.  Left out are the progress
\* callbacks a collaborator makes before it ends and the client's retry
\* request.
WorkflowStep ==
  \/ StatusWrite
  \/ StageReturn
  \/ StageRaise
  \/ HandleFailure
  \/ BackgroundTaskEnd
  \/ CeleryTaskReturn
  \/ CeleryTaskRetry
  \/ CeleryTaskFail
  \/ DockingStart
  \/ ProteinPrepared
  \/ \E i \in DOMAIN unit : UnitStart(i)
  \/ \E i \in DOMAIN unit : UnitPrepared(i)
  \/ \E i \in DOMAIN unit : UnitDocked(i)
  \/ LigandsGathered
  \/ DockingSummarize

\* Every awaited call returns, raises or times out, the event loop resumes
\* the coroutine that awaited it, and the launcher runs the task it was
\* given: a step forward that stays possible is taken.  Nothing obliges a
\* client to send a retry request.
SpecLive == Init /\ [][Next]_vars /\ WF_vars(WorkflowStep)

\* The steps of one execution launched by create_job.
NextDock ==
  \/ StatusWrite
  \/ StageReturn
  \/ StageRaise
  \/ \E p \in CallbackValues : ProgressCallback(p)
  \/ HandleFailure
  \/ BackgroundTaskEnd
  \/ DockingStart
  \/ ProteinPrepared
  \/ \E i \in DOMAIN unit : UnitStart(i)
  \/ \E i \in DOMAIN unit : UnitPrepared(i)
  \/ \E i \in DOMAIN unit : UnitDocked(i)
  \/ LigandsGathered
  \/ DockingSummarize

SpecDock == InitDock /\ [][NextDock]_vars

\* No workflow runs: a function of the docking service is called on its own.
NoJob ==
  /\ job = NewJob(DOCKING_ONLY, <<"sdf">>)
  /\ args = FirstArgs(DOCKING_ONLY, <<"sdf">>)
  /\ runner = "background"
  /\ phase = "idle"
  /\ ip = 1
  /\ exc = NoExc
  /\ retries = 0
  /\ retryReqs = 0
  /\ loc = NoLocals
  /\ pdbFile = None
  /\ trail = <<>>
  /\ written = NothingWritten
  /\ dphase = "idle"
  /\ protPreps = 0
  /\ protein_pdbqt = None
  /\ unit = <<>>
  /\ slot = <<>>
  /\ permits = 0
  /\ finished = <<>>
  /\ all_results = <<>>

\* validate_and_normalize_parameters is about to be called with a parameter
\* map.  run_autodock_vina calls it for every map that is not empty
\* (docking.py:114-118).
InitParams ==
  /\ NoJob
  /\ parameters \in ParameterMaps
  /\ normalized = {}
  /\ raised = None
  /\ engine = None
  /\ timeout_seconds = {}
  /\ content = <<>>
  /\ parsed = {}
  /\ NoAux

\* One call of validate_and_normalize_parameters (docking.py:303-358).
Normalize ==
  /\ normalized = {}
  /\ raised = None
  /\ normalized' = validate_and_normalize_parameters(parameters).value
  /\ raised' = validate_and_normalize_parameters(parameters).raised
  /\ UNCHANGED <<parameters, engine, timeout_seconds, content, parsed>>
  /\ UNCHANGED auxVars
  /\ UNCHANGED <<wfVars, dockVars>>

\* An executor starts the engine for a ligand with the normalized parameters
\* and sets the timeout of the subprocess (docking.py:770-815, 1040-1072).
StartEngine(e) ==
  /\ normalized # {}
  /\ engine = None
  /\ engine' = e
  /\ timeout_seconds' = {IF e = "vina" THEN VinaTimeout(n.exhaustiveness.v \div 10) ELSE GninaTimeout(n.exhaustiveness.v \div 10) : n \in normalized}
  /\ UNCHANGED <<parameters, normalized, raised, content, parsed>>
  /\ UNCHANGED auxVars
  /\ UNCHANGED <<wfVars, dockVars>>

NextParams ==
  \/ Normalize
  \/ \E e \in {"vina", "gnina"} : StartEngine(e)

SpecParams == InitParams /\ [][NextParams]_vars

\* The engine has written its log and the executor is about to parse it.
InitParse ==
  /\ NoJob
  /\ parameters = <<>>
  /\ normalized = {}
  /\ raised = None
  /\ engine = None
  /\ timeout_seconds = {}
  /\ content \in LogContents
  /\ parsed = {}
  /\ NoAux

\* result = await parse_vina_log(log_file, output_pdbqt) (docking.py:832) or
\* parse_gnina_log (docking.py:1088).
ParseEngineLog(e) ==
  /\ engine = None
  /\ engine' = e
  /\ parsed' = ParseLog(content, IF e = "vina" THEN "Vina" ELSE "Gnina").value
  /\ raised' = ParseLog(content, IF e = "vina" THEN "Vina" ELSE "Gnina").raised
  /\ UNCHANGED <<parameters, normalized, timeout_seconds, content>>
  /\ UNCHANGED auxVars
  /\ UNCHANGED <<wfVars, dockVars>>

NextParse == \E e \in {"vina", "gnina"} : ParseEngineLog(e)

SpecParse == InitParse /\ [][NextParse]_vars

\* The successful results of a docking run: one per ligand, each with the
\* affinity of its best mode in tenths of kcal/mol.
ClusterAffinities == {0 - 90, 0 - 73, 0 - 70, 0 - 30, 0 - 3, 3}

ResultLists == UNION {[1..n -> ClusterAffinities] : n \in 1..MaxClusterResults}

\* perform_pose_clustering is about to be called with the successful results
\* of a run (docking.py:153-160); the function is taken with the results in
\* every order.
InitCluster ==
  /\ NoJob
  /\ parameters = <<>>
  /\ normalized = {}
  /\ raised = None
  /\ engine = None
  /\ timeout_seconds = {}
  /\ content = <<>>
  /\ parsed = {}
  /\ \E affinities \in ResultLists : results = [k \in DOMAIN affinities |-> [ligand_name |-> k, binding_affinity |-> affinities[k]]]
  /\ clustered = {}
  /\ NoSelect
  /\ NoRetry
  /\ NoSite
  /\ NoCache

\* clustered_results = perform_pose_clustering(valid_results)
\* (docking.py:160).
ClusterPoses ==
  /\ clustered = {}
  /\ clustered' = {perform_pose_clustering(results)}
  /\ UNCHANGED <<parameters, normalized, raised, engine, timeout_seconds, content, parsed, results>>
  /\ UNCHANGED <<wfVars, dockVars, selectVars, retryVars, siteVars, cacheVars>>

NextCluster == ClusterPoses

SpecCluster == InitCluster /\ [][NextCluster]_vars

\* The value of a JSON boolean.
PBool(b) == [kind |-> "bool", v |-> IF b THEN 10 ELSE 0]

\* bool(x) of a number.
TruthyValue(x) == x.kind = "inf" \/ x.v # 0

\* _gnina_available() without await (docking.py:402): the call returns a
\* coroutine object, which is truthy whatever the host has installed, and the
\* body of the check does not run.
GninaAvailableCall == TRUE

\* use_gnina (docking.py:399-403) for the parameters handed to
\* process_ligands_parallel.
UseGnina(parameters_) == use_gpu_docking /\ TruthyValue(get(parameters_, "use_gpu", PBool(FALSE))) /\ GninaAvailableCall

\* Parameter maps with and without the request for GPU docking.
SelectValues == {PBool(TRUE), PBool(FALSE), PInt(MIN_EXHAUSTIVENESS), PInt(DEFAULT_EXHAUSTIVENESS), PInt(MAX_EXHAUSTIVENESS)}

SelectMaps == {m \in UNION {[S -> SelectValues] : S \in SUBSET {"use_gpu", "exhaustiveness"}} : m # <<>> /\ ("use_gpu" \in DOMAIN m => m["use_gpu"].kind = "bool") /\ ("exhaustiveness" \in DOMAIN m => m["exhaustiveness"].kind = "int")}

\* process_ligands_parallel is about to be called for one ligand, directly or
\* by run_autodock_vina after validate_and_normalize_parameters.
InitSelect ==
  /\ NoJob
  /\ parameters \in SelectMaps
  /\ normalized = {}
  /\ raised = None
  /\ engine = None
  /\ timeout_seconds = {}
  /\ content = <<>>
  /\ parsed = {}
  /\ NoCluster
  /\ use_gpu_docking \in BOOLEAN
  /\ gnina_installed \in BOOLEAN
  /\ availability = {}
  /\ NoRetry
  /\ NoSite
  /\ NoCache

\* process_single_ligand chooses the executor of the ligand
\* (docking.py:399-420).
ProcessSingleLigand(parameters_) ==
  /\ engine = None
  /\ engine' = IF UseGnina(parameters_) THEN "gnina" ELSE "vina"
  /\ UNCHANGED <<parameters, normalized, raised, timeout_seconds, content, parsed>>
  /\ UNCHANGED <<wfVars, dockVars, clusterVars, selectVars, retryVars, siteVars, cacheVars>>

\* run_autodock_vina hands the normalized parameters to
\* process_ligands_parallel (docking.py:118, 141-147).
SelectAfterGovernor == \E n \in normalized : ProcessSingleLigand(n)

\* process_ligands_parallel called with the parameters as given.
SelectDirectly == normalized = {} /\ raised = None /\ ProcessSingleLigand(parameters)

NextSelect ==
  \/ Normalize
  \/ SelectAfterGovernor
  \/ SelectDirectly

SpecSelect == InitSelect /\ [][NextSelect]_vars

\* A job whose execution has failed: the row after handle_job_failure.  A
\* docking-only job has the path of its protein file or has lost it.
FailedJobs == {[NewJob(jt, <<"sdf">>) EXCEPT !.status = FAILED, !.error_message = "error", !.protein_pdb_path = path] : jt \in JobType, path \in {None, "path"}}

\* A handler of POST /jobs/{job_id}/retry that has not read the job yet.
NewRequest == [pc |-> "new", job |-> {}]

\* Clients are about to send retry requests for a failed job whose execution
\* has ended.
InitRetry ==
  /\ job \in FailedJobs
  /\ args = FirstArgs(job.job_type, job.ligand_files)
  /\ pdbFile = (IF job.protein_pdb_path = None THEN None ELSE "pdb")
  /\ runner = "background"
  /\ phase = "idle"
  /\ ip = 1
  /\ exc = NoExc
  /\ retries = 0
  /\ retryReqs = 0
  /\ loc = NoLocals
  /\ trail = <<>>
  /\ written = NothingWritten
  /\ dphase = "idle"
  /\ protPreps = 0
  /\ protein_pdbqt = None
  /\ unit = <<>>
  /\ slot = <<>>
  /\ permits = 0
  /\ finished = <<>>
  /\ all_results = <<>>
  /\ parameters = <<>>
  /\ normalized = {}
  /\ raised = None
  /\ engine = None
  /\ timeout_seconds = {}
  /\ content = <<>>
  /\ parsed = {}
  /\ NoCluster
  /\ NoSelect
  /\ NoSite
  /\ NoCache
  /\ req = [r \in 1..MaxRetryHandlers |-> NewRequest]
  /\ running = {}

\* What a step of a retry handler or of a background execution leaves alone.
RetryFrame == UNCHANGED <<phase, ip, exc, runner, retries, retryReqs, args, loc, pdbFile, trail, written, dockVars, parameters, normalized, raised, engine, timeout_seconds, content, parsed, clusterVars, selectVars, siteVars, cacheVars>>

\* result = await db.execute(select(Job).where(Job.id == job_id))
\* (routes/jobs.py:220-221): the handler's session loads the row.
RetryRead(r) ==
  /\ req[r].pc = "new"
  /\ req' = [req EXCEPT ![r] = [pc |-> "read", job |-> {job}]]
  /\ UNCHANGED <<job, running>>
  /\ RetryFrame

\* The checks on the loaded row and, when they pass, the commit of the new
\* status and the background task (routes/jobs.py:222-277).  The commit
\* writes the attributes the handler has set.
RetryCommit(r) ==
  /\ req[r].pc = "read"
  /\ \E loaded \in req[r].job :
        IF RetryAccepted(loaded, pdbFile)
          THEN /\ job' = [job EXCEPT !.status = SUBMITTED, !.error_message = None]
               /\ req' = [req EXCEPT ![r].pc = "accepted"]
               /\ running' = running \cup {r}
          ELSE /\ req' = [req EXCEPT ![r].pc = "rejected"]
               /\ UNCHANGED <<job, running>>
  /\ RetryFrame

\* An execution in progress writes the status of its stage, here the one of
\* its first stage after SUBMITTED (workflow.py:110-124).
ExecutionWrite(r) ==
  /\ r \in running
  /\ job' = [job EXCEPT !.status = IF job.job_type = SEQUENCE_TO_DOCKING THEN PREDICTING_STRUCTURE ELSE DOCKING]
  /\ UNCHANGED <<req, running>>
  /\ RetryFrame

\* The execution ends: it completes the job, or handle_job_failure marks it
\* failed.
ExecutionEnd(r) ==
  /\ r \in running
  /\ \/ job' = [job EXCEPT !.status = COMPLETED]
     \/ job' = [job EXCEPT !.status = FAILED, !.error_message = "error"]
  /\ running' = running \ {r}
  /\ UNCHANGED req
  /\ RetryFrame

NextRetry ==
  \/ \E r \in DOMAIN req : RetryRead(r)
  \/ \E r \in DOMAIN req : RetryCommit(r)
  \/ \E r \in DOMAIN req : ExecutionWrite(r)
  \/ \E r \in DOMAIN req : ExecutionEnd(r)

SpecRetry == InitRetry /\ [][NextRetry]_vars

\* The centre and size keys the full pipeline may write.
SiteKeys == {"center_x", "center_y", "center_z", "size_x", "size_y", "size_z"}

\* Integer and float zero, a fractional and an integer value.
SiteValues == {PInt(0), PFloat(0), PFloat(125), PInt(25)}

\* The docking parameters of a caller that gives some of center_x, center_y
\* and size_x.
SiteMaps == UNION {[S -> SiteValues] : S \in SUBSET {"center_x", "center_y", "size_x"}} \ {<<>>}

\* What analyze_binding_sites returns for its best pocket
\* (binding_site.py:252-259, 399-409).
PocketCoordinates == {[center_x |-> PFloat(c), center_y |-> PFloat(c), center_z |-> PFloat(c), estimated_size |-> PFloat(size)] : c \in {0 - 42, 15}, size \in {200, 450}}

\* bool(parameters.get(key)): None, 0 and 0.0 are falsy.
Supplied(parameters_, key) == key \in DOMAIN parameters_ /\ TruthyValue(parameters_[key])

\* The update of the docking parameters with the binding-site coordinates
\* (workflow.py:192-201), for coordinates that are not None.
WithBindingSite(parameters_, c) ==
  IF Supplied(parameters_, "center_x") THEN parameters_
  ELSE LET centred == [k \in DOMAIN parameters_ \cup {"center_x", "center_y", "center_z"} |-> IF k \in {"center_x", "center_y", "center_z"} THEN get(c, k, get(parameters_, k, PFloat(0))) ELSE parameters_[k]]
       IN IF Supplied(centred, "size_x") THEN centred
          ELSE [k \in DOMAIN centred \cup {"size_x", "size_y", "size_z"} |-> IF k \in {"size_x", "size_y", "size_z"} THEN get(c, "estimated_size", PFloat(200)) ELSE centred[k]]

\* The full pipeline has analysed the binding sites of the predicted
\* structure and is about to update the caller's docking parameters; the
\* update is taken on its own, with the rest of the workflow at rest.
InitSite ==
  /\ NoJob
  /\ parameters \in SiteMaps
  /\ normalized = {}
  /\ raised = None
  /\ engine = None
  /\ timeout_seconds = {}
  /\ content = <<>>
  /\ parsed = {}
  /\ NoCluster
  /\ NoSelect
  /\ NoRetry
  /\ coords \in {{}} \cup {{c} : c \in PocketCoordinates}
  /\ docking_input = {}
  /\ NoCache

\* workflow.py:192-201 and the call of run_autodock_vina with the updated
\* parameters (workflow.py:221-226).
ApplyBindingSite ==
  /\ docking_input = {}
  /\ docking_input' = IF coords = {} THEN {parameters} ELSE {WithBindingSite(parameters, c) : c \in coords}
  /\ UNCHANGED <<parameters, normalized, raised, engine, timeout_seconds, content, parsed, coords>>
  /\ UNCHANGED <<wfVars, dockVars, clusterVars, selectVars, retryVars, cacheVars>>

NextSite == ApplyBindingSite

SpecSite == InitSite /\ [][NextSite]_vars

\* The keys of the dict.
CacheKeys(c) == {c[i].key : i \in DOMAIN c}

\* The position of a key of the dict.
IndexOf(c, k) == CHOOSE i \in DOMAIN c : c[i].key = k

\* del d[key]: the other entries keep their order.
RemoveAt(c, i) == SubSeq(c, 1, i - 1) \o SubSeq(c, i + 1, Len(c))

\* The eviction that takes the first entry of the dict.
FirstIndex(c) == 1

\* min(_analysis_cache.keys(), key=lambda k: _analysis_cache[k]["timestamp"])
\* (ai_report.py:308): the first entry, in the order of the dict, among those
\* with the least timestamp.
OldestIndex(c) == CHOOSE i \in DOMAIN c : (\A j \in DOMAIN c : c[i].timestamp <= c[j].timestamp) /\ (\A j \in 1..(i - 1) : c[j].timestamp > c[i].timestamp)

\* _analysis_cache[cache_key] = {...} (ai_report.py:302-305): a key of the
\* dict keeps its place, a new one goes last.
Stored(c, k, result, timestamp) ==
  IF k \in CacheKeys(c) THEN [c EXCEPT ![IndexOf(c, k)] = [key |-> k, result |-> result, timestamp |-> timestamp]]
  ELSE Append(c, [key |-> k, result |-> result, timestamp |-> timestamp])

\* _cache_analysis (ai_report.py:300-309) at the time given.
cache_analysis(c, k, result, timestamp) ==
  LET stored == Stored(c, k, result, timestamp)
  IN IF Len(stored) > CACHE_MAX_ENTRIES THEN RemoveAt(stored, OldestIndex(stored)) ELSE stored

\* _get_cached_analysis without its test of the age.
get_cached_analysis_NoExpiry(c, k, timestamp) ==
  IF k \notin CacheKeys(c) THEN [cache |-> c, result |-> None, age |-> 0]
  ELSE [cache |-> c, result |-> c[IndexOf(c, k)].result, age |-> timestamp - c[IndexOf(c, k)].timestamp]

\* _get_cached_analysis (ai_report.py:285-298) at the time given: the dict
\* it leaves, what it returns and the age it computed.
get_cached_analysis(c, k, timestamp) ==
  IF k \notin CacheKeys(c) THEN [cache |-> c, result |-> None, age |-> 0]
  ELSE LET i == IndexOf(c, k)
           age_seconds == timestamp - c[i].timestamp
       IN IF age_seconds > CACHE_TTL_SECONDS THEN [cache |-> RemoveAt(c, i), result |-> None, age |-> age_seconds]
          ELSE [cache |-> c, result |-> c[i].result, age |-> age_seconds]

\* The key of a context that is analysed for the first time: _get_cache_key
\* hashes the context (ai_report.py:280-283), and the keys are numbered here
\* in the order of their first use.
FreshKey == IF cache = <<>> THEN 1 ELSE SetMax(CacheKeys(cache)) + 1

\* The keys of the contexts that are analysed again and again: the first
\* two and the last one of the warm cache.
RepeatedKeys == {1, 2, CACHE_MAX_ENTRIES - 2}

\* The steps of the clock between two calls: the lifetime of an entry and
\* one second more.
TickSeconds == {CACHE_TTL_SECONDS, CACHE_TTL_SECONDS + 1}

\* The cache after CACHE_MAX_ENTRIES - 2 analyses of distinct contexts, one a
\* second: two entries short of its capacity.
WarmCache == [k \in 1..(CACHE_MAX_ENTRIES - 2) |-> [key |-> k, result |-> "analysis", timestamp |-> k]]

\* The module has just been imported and the cache is empty
\* (ai_report.py:42), or the service has filled the cache almost to its
\* capacity; from there every call is followed.
InitCache ==
  /\ NoJob
  /\ parameters = <<>>
  /\ normalized = {}
  /\ raised = None
  /\ engine = None
  /\ timeout_seconds = {}
  /\ content = <<>>
  /\ parsed = {}
  /\ NoCluster
  /\ NoSelect
  /\ NoRetry
  /\ NoSite
  /\ \/ cache = <<>> /\ now = 0
     \/ cache = WarmCache /\ now = CACHE_MAX_ENTRIES - 2
  /\ returned = {}
  /\ calls = 0

\* What a call of the cache leaves alone.
CacheFrame == UNCHANGED <<wfVars, dockVars, parameters, normalized, raised, engine, timeout_seconds, content, parsed, clusterVars, selectVars, retryVars, siteVars>>

\* _cache_analysis(cache_key, result) after an analysis (ai_report.py:467,
\* 574, 1175, 1246).
CacheAnalysis(k) ==
  /\ calls < MaxCacheCalls
  /\ calls' = calls + 1
  /\ cache' = cache_analysis(cache, k, "analysis", now)
  /\ UNCHANGED <<now, returned>>
  /\ CacheFrame

\* cached_result = _get_cached_analysis(cache_key) before an analysis
\* (ai_report.py:378, 486, 1120, 1191).
GetCachedAnalysis(k) ==
  /\ calls < MaxCacheCalls
  /\ calls' = calls + 1
  /\ cache' = get_cached_analysis(cache, k, now).cache
  /\ returned' = {[result |-> get_cached_analysis(cache, k, now).result, age |-> get_cached_analysis(cache, k, now).age]}
  /\ UNCHANGED now
  /\ CacheFrame

\* Time passes between two calls.
Tick(d) ==
  /\ now + d <= MaxClock
  /\ now' = now + d
  /\ UNCHANGED <<cache, returned, calls>>
  /\ CacheFrame

NextCache ==
  \/ \E k \in RepeatedKeys \cup {FreshKey} : CacheAnalysis(k)
  \/ \E k \in RepeatedKeys : GetCachedAnalysis(k)
  \/ \E d \in TickSeconds : Tick(d)

SpecCache == InitCache /\ [][NextCache]_vars

TypeOK ==
  /\ DOMAIN job = JobColumns
  /\ job.status \in JobStatus
  /\ phase \in {"idle", "running", "except", "raised", "done"}
  /\ dphase \in {"idle", "protein", "ligands", "gathered"}
  /\ retries \in 0..max_retries
  /\ retryReqs \in 0..MaxRetryRequests

\* ------------------------------------------------------------ properties
\* The chain of models.JobStatus without FAILED.
StatusChain == <<SUBMITTED, PREDICTING_STRUCTURE, STRUCTURE_PREDICTED, DOCKING, ANALYZING, COMPLETED>>

Rank(s) == CHOOSE k \in 1..Len(StatusChain) : StatusChain[k] = s

\* A step that begins an execution of the workflow body.
Restarts == phase # "running" /\ phase' = "running"

\* The units inside prepare_ligand or run_vina_docking.
InFlight == {i \in DOMAIN unit : unit[i] \in {"prepare", "dock"}}

\* The counts of a docking summary agree with a batch of n ligands.
CountsAgree(s, n) == s.total_ligands = n /\ Len(s.results) = n /\ s.successful_ligands + s.failed_ligands = s.total_ligands

\* C1: between two status writes of one execution the persisted status never
\* moves back in the chain SUBMITTED .. COMPLETED; a step that changes the
\* status to FAILED starts in a status that is not COMPLETED (nor FAILED); and
\* the step that completes a sequence-to-docking job ends an execution whose
\* writes visited every status of the chain, in order.
C1_StatusChain ==
  [][ /\ (written.status # None /\ written'.status # None /\ job'.status # FAILED) => (job.status # FAILED /\ Rank(job.status) <= Rank(job'.status))
      /\ (job'.status = FAILED /\ job.status # FAILED) => job.status # COMPLETED
      /\ (job'.status = COMPLETED /\ job.status # COMPLETED /\ job.job_type = SEQUENCE_TO_DOCKING) => trail' = StatusChain ]_vars

\* C1: a sequence-to-docking job has completed.
C1_Completed == job.job_type = SEQUENCE_TO_DOCKING /\ job.status = COMPLETED /\ phase = "done" /\ trail = StatusChain

C3_FailureWrite ==
  [][ (phase = "except" /\ job' # job) =>
        /\ job'.status = FAILED
        /\ job'.error_message = exc.msg
        /\ DOMAIN job' = DOMAIN job
        /\ \A k \in DOMAIN job \ {"status", "error_message"} : job'[k] = job[k] ]_vars

\* C3: the protein preparation of a docking-only job failed while the job was
\* DOCKING, and the job is FAILED with that message and its stored PDB path.
C3_DockingFailed == job.status = FAILED /\ exc = ProteinPrepError /\ job.error_message = ProteinPrepError.msg /\ trail = <<DOCKING, FAILED>> /\ job.protein_pdb_path # None

\* C4 as stated: an execution that has written FAILED is followed by another
\* execution of the workflow only through an explicit retry request, for a
\* FAILED job, which sets the status to SUBMITTED and passes the inputs the
\* job was created with.
C4_OnlyExplicitRetry ==
  [][ (Restarts /\ written.status = FAILED) =>
        (retryReqs' = retryReqs + 1 /\ job.status = FAILED /\ job'.status = SUBMITTED /\ args' = args) ]_vars

\* C4 amended: an execution is followed by another one only through an
\* explicit retry request (accepted for a FAILED job only, setting the status
\* to SUBMITTED and passing the stored inputs, which are the original ones),
\* or through the Celery task retrying itself with the same arguments after
\* a ConnectionError or TimeoutError, at most max_retries times.
C4_RetryOrCeleryRetry ==
  [][ Restarts =>
        \/ /\ retryReqs' = retryReqs + 1
           /\ job.status = FAILED
           /\ job'.status = SUBMITTED
           /\ args' = RetryArgs(job, pdbFile)
           /\ args' = args
        \/ /\ runner = "celery"
           /\ Transient(exc)
           /\ retries < max_retries
           /\ retries' = retries + 1
           /\ args' = args
           /\ job' = job
           /\ retryReqs' = retryReqs ]_vars

\* C4: the job runs again after an explicit retry of its failed execution.
C4_Retried == retryReqs = 1 /\ phase = "running" /\ ip > 1 /\ job.error_message = None

\* C5 as stated: every docking run that has gathered its ligands' results
\* ends with a summary whose counts agree with the batch, also when every
\* ligand failed.
C5_AlwaysSummary ==
  [][ (dphase = "gathered" /\ dphase' = "idle") =>
        (loc'.docking_results # {} /\ \A s \in loc'.docking_results : CountsAgree(s, NumLigands)) ]_vars

\* C5 amended: the gathered result list has exactly one entry per ligand of
\* the batch, and a summary, which exists only for a batch with a successful
\* ligand, lists all N entries with successful + failed = total = N.
C5_ResultCounts ==
  /\ dphase = "gathered" => Len(all_results) = NumLigands
  /\ \A s \in loc.docking_results : CountsAgree(s, NumLigands) /\ s.successful_ligands >= 1

\* C5: a batch of three ligands, one of which failed, has its summary.
C5_MixedBatch == \E s \in loc.docking_results : s.total_ligands = 3 /\ s.successful_ligands = 2 /\ s.failed_ligands = 1

\* C6: every entry a unit produces carries the unit's index; an entry with an
\* error has no affinity and no modes, and an entry without an affinity has
\* an error; an empty payload gives an error entry; while the units run the
\* workflow is not interrupted; and an entry, once produced, is not changed
\* by any other unit and is what the batch returns at its position.
C6_ErrorIsolation ==
  [][ /\ \A i \in DOMAIN slot' : \A e \in slot'[i] :
            /\ e.ligand_index = i
            /\ e.error # None => (e.binding_affinity = {} /\ e.modes = <<>>)
            /\ e.binding_affinity = {} => e.error # None
            /\ args.ligand_files[i + 1] = "" => e.error = "Empty ligand content"
      /\ dphase = "ligands" => (phase' = phase /\ exc' = exc /\ dphase' \in {"ligands", "gathered"})
      /\ \A j \in DOMAIN slot : (slot[j] # {} /\ dphase' = "ligands") => slot'[j] = slot[j]
      /\ (dphase = "ligands" /\ dphase' = "gathered") => \A j \in DOMAIN slot : all_results'[j + 1] \in slot[j] ]_vars

\* C6: of three ligands the second one's log did not parse; the batch
\* returned its error entry between the two successful entries.
C6_ParseFailureKept == dphase = "gathered" /\ Len(all_results) = 3 /\ all_results[2].error = "Unexpected error during Vina execution: No valid docking modes found in Vina log file" /\ all_results[1].binding_affinity # {} /\ all_results[3].binding_affinity # {}

\* C7: the docking run ends with the batch-level DockingError exactly when
\* no gathered entry has an affinity; otherwise it returns a summary to the
\* workflow, however many entries failed.
C7_BatchFailureIffNone ==
  [][ (dphase = "gathered" /\ dphase' = "idle") =>
        /\ (phase' = "except") <=> (Succeeded(all_results) = {})
        /\ phase' = "except" => (exc' = BatchFailedError /\ loc'.docking_results = {})
        /\ phase' # "except" => (loc'.docking_results # {} /\ exc' = exc) ]_vars

\* C7: a batch with one successful and two failed ligands has its summary.
C7_OneSuccessEnough == \E s \in loc.docking_results : s.successful_ligands = 1 /\ s.failed_ligands = 2

\* C8: in a batch of more than one ligand, at most MAX_PARALLEL_LIGANDS units
\* are inside prepare_ligand or run_vina_docking at any time.
C8_InFlightBounded == NumLigands > 1 => Cardinality(InFlight) <= MAX_PARALLEL_LIGANDS

\* C8: the limit is reached while another unit waits for the semaphore.
C8_LimitReached == NumLigands > MAX_PARALLEL_LIGANDS /\ Cardinality(InFlight) = MAX_PARALLEL_LIGANDS /\ \E i \in DOMAIN unit : unit[i] = "waiting"

\* C9: the list the batch returns is in input order, position k holding the
\* entry of index k - 1 with the name derived from it, whatever order the
\* units finished in; and a step that fills a slot fills the slot of the unit
\* that finishes in that step, with an entry of that index.
C9_InputOrder ==
  [][ /\ dphase' = "gathered" => \A k \in 1..Len(all_results') : (all_results'[k].ligand_index = k - 1 /\ all_results'[k].ligand_name = LigandName(k - 1))
      /\ dphase' = "gathered" => Len(all_results') = Len(args.ligand_files)
      /\ \A j \in DOMAIN slot : (dphase' = "ligands" /\ slot'[j] # slot[j]) =>
            (unit[j] # "done" /\ unit'[j] = "done" /\ \A e \in slot'[j] : e.ligand_index = j) ]_vars

\* C9: three units finished in the reverse of the input order and the batch
\* returned their entries.
C9_ReverseFinish == dphase = "gathered" /\ finished = <<2, 1, 0>> /\ Len(all_results) = 3

\* C10: while the units of a docking run exist, prepare_protein has been
\* called exactly once in that run and has returned the prepared file; before
\* it returns there are no units; and a run that leaves the preparation
\* without the prepared file raises ProteinPreparationError to the workflow
\* with no unit created.
C10_ProteinFirst ==
  [][ /\ dphase' \in {"ligands", "gathered"} => (protPreps' = 1 /\ protein_pdbqt' # None)
      /\ dphase' = "protein" => (protPreps' = 1 /\ unit' = <<>>)
      /\ dphase' = "idle" => unit' = <<>>
      /\ (\E i \in DOMAIN unit' : unit'[i] # "waiting") => (dphase' = "ligands" /\ protein_pdbqt' # None)
      /\ (dphase = "protein" /\ protein_pdbqt' = None) => (phase' = "except" /\ exc' = ProteinPrepError /\ unit' = <<>> /\ dphase' = "idle") ]_vars

\* C10: the protein preparation failed and the workflow holds its error.
C10_PrepFailed == phase = "except" /\ exc = ProteinPrepError /\ dphase = "idle" /\ unit = <<>> /\ job.status = DOCKING

\* C11: in every persisted state of the job, error_message is present only
\* while the status is FAILED; in particular an execution that follows a
\* failed one (explicit retry or the Celery task retrying itself) leaves no
\* message of the earlier failure on a job that is no longer FAILED.
C11_ErrorOnlyWhenFailed == job.error_message # None => job.status = FAILED

\* C12: an error of the report generation or of the anchoring on the
\* blockchain does not interrupt the workflow: a step taken while the
\* workflow awaits generate_ai_report or store_on_blockchain never leaves it
\* in its except clause, so the job goes on to COMPLETED.
C12_ReportErrorsCaught ==
  [][ (phase = "running" /\ Instr.op = "call" /\ Instr.fn \in {"generate_ai_report", "store_on_blockchain"}) => phase' # "except" ]_vars

\* C13: the except clause of a workflow body always ends by raising to the
\* caller the exception the stage raised, also when its write of FAILED fails
\* and the job's row stays as it was: it neither returns normally nor raises
\* the error of the status write.
C13_OriginalPropagates ==
  [][ phase = "except" => (phase' = "raised" /\ exc' = exc /\ exc # NoExc /\ (job' = job \/ job'.status = FAILED)) ]_vars

\* C13: the protein preparation raised, the write of FAILED failed (the job
\* is still DOCKING) and the workflow has raised the preparation's error.
C13_WriteFailed == phase = "raised" /\ exc = ProteinPrepError /\ job.status = DOCKING /\ written.status = DOCKING

\* C14: a status write that is given a progress stores the new status, the
\* new progress and the new progress message in the job's row in the same
\* step, and a step in which the write fails changes none of them.
C14_AtomicWrite ==
  [][ /\ (written' # written /\ written'.progress # {}) =>
            /\ job'.status = written'.status
            /\ hasattr(job', "progress") /\ job'["progress"] = {Clamp(q) : q \in written'.progress}
            /\ hasattr(job', "progress_message") /\ job'["progress_message"] = written'.message
      /\ (phase = "running" /\ phase' = "except") => job' = job ]_vars

\* The int n lies in lo..hi.
InRange(n, lo, hi) == n.kind = "int" /\ lo * 10 <= n.v /\ n.v <= hi * 10

\* C15: for every parameter map with numeric values (negative, zero, very
\* large or absent exhaustiveness and num_modes included),
\* validate_and_normalize_parameters raises nothing and returns an
\* exhaustiveness within 1..32 and a num_modes within 1..20.
C15_AlwaysInRange ==
  /\ raised = None
  /\ \A n \in normalized : InRange(n.exhaustiveness, MIN_EXHAUSTIVENESS, MAX_EXHAUSTIVENESS) /\ InRange(n.num_modes, MIN_NUM_MODES, MAX_NUM_MODES)

\* The parameter map has the field under none of its aliases.
Absent(parameters_, aliases) == DOMAIN parameters_ \cap aliases = {}

\* C16: every field the parameter map has under none of its own aliases is
\* returned with its default (center 0, size 20, exhaustiveness 8, num_modes
\* 9, energy_range 3.0), whatever other fields the map has.
C16_AbsentGetsDefault ==
  \A n \in normalized :
    /\ Absent(parameters, {"center_x", "grid_center_x"}) => n.center_x = PFloat(0)
    /\ Absent(parameters, {"center_y", "grid_center_y"}) => n.center_y = PFloat(0)
    /\ Absent(parameters, {"center_z", "grid_center_z"}) => n.center_z = PFloat(0)
    /\ Absent(parameters, {"size_x", "grid_size_x"}) => n.size_x = PFloat(DEFAULT_GRID_SIZE)
    /\ Absent(parameters, {"size_y", "grid_size_y"}) => n.size_y = PFloat(DEFAULT_GRID_SIZE)
    /\ Absent(parameters, {"size_z", "grid_size_z"}) => n.size_z = PFloat(DEFAULT_GRID_SIZE)
    /\ Absent(parameters, {"exhaustiveness"}) => n.exhaustiveness = PInt(DEFAULT_EXHAUSTIVENESS)
    /\ Absent(parameters, {"num_modes"}) => n.num_modes = PInt(DEFAULT_NUM_MODES)
    /\ Absent(parameters, {"energy_range"}) => n.energy_range = PFloat(DEFAULT_ENERGY_RANGE)

\* The value the parameter map gives for a grid size: under the key itself,
\* else under its grid_ alias, else none.
SizeInput(parameters_, dim) == IF dim \in DOMAIN parameters_ THEN {parameters_[dim]} ELSE IF ("grid_" \o dim) \in DOMAIN parameters_ THEN {parameters_["grid_" \o dim]} ELSE {}

\* The number lies within MIN_GRID_SIZE..MAX_GRID_SIZE.
InGridRange(x) == x.kind # "inf" /\ MIN_GRID_SIZE <= x.v /\ x.v <= MAX_GRID_SIZE

C18_TimeoutCapped ==
  \A t \in timeout_seconds : \A n \in normalized :
    LET e == n.exhaustiveness.v \div 10
    IN /\ e \in MIN_EXHAUSTIVENESS..MAX_EXHAUSTIVENESS
       /\ e < 10 => t = 120 * e
       /\ e >= 10 => t = 1200
       /\ engine \in {"vina", "gnina"}

\* C18: the GPU executor started the engine with an exhaustiveness of 10 and
\* a timeout of 1200 seconds.
C18_TenGetsCap == engine = "gnina" /\ timeout_seconds = {1200} /\ \E n \in normalized : n.exhaustiveness = PInt(10)

\* The tool name the executor gives its parser.
ToolName == IF engine = "vina" THEN "Vina" ELSE "Gnina"

\* The lines of the log after the first one that starts the results table.
AfterHeader(lines, tool_name) ==
  IF \E h \in 1..Len(lines) : StartsTable(lines[h], tool_name)
    THEN SubSeq(lines, (CHOOSE h \in 1..Len(lines) : StartsTable(lines[h], tool_name) /\ \A g \in 1..(h - 1) : ~StartsTable(lines[g], tool_name)) + 1, Len(lines))
    ELSE <<>>

\* The well-formed rows among the lines, in order.
WellFormedRows(lines) == SelectSeq(lines, LAMBDA l : ParsesAsMode(l) /\ ~l.header /\ ~l.sep)

C20_ModesSorted ==
  \A r \in parsed :
    /\ \A k \in 1..(Len(r.modes) - 1) : r.modes[k].affinity <= r.modes[k + 1].affinity
    /\ \A k \in 1..Len(r.modes) : r.binding_affinity <= r.modes[k].affinity

\* C21: for every parsed list of modes, the pose consistency of the result
\* and the one _calculate_pose_consistency derives from the modes lie within
\* 0..1, and both are exactly 1.0 for a list of one mode.
C21_PoseConsistency ==
  \A r \in parsed :
    /\ InUnit(r.quality.pose_consistency.lo) /\ InUnit(r.quality.pose_consistency.hi)
    /\ InUnit(calculate_pose_consistency(r.modes))
    /\ Len(r.modes) = 1 => (r.quality.pose_consistency = [lo |-> Frac(1, 1), hi |-> Frac(1, 1)] /\ calculate_pose_consistency(r.modes) = Frac(1, 1))

\* The list perform_pose_clustering returned holds every result handed to it
\* once, with its affinity.
SameResults(input, output) ==
  /\ Len(output) = Len(input)
  /\ \A k \in DOMAIN input : Cardinality({j \in DOMAIN output : output[j].ligand_name = input[k].ligand_name}) = 1
  /\ \A k \in DOMAIN input : \E j \in DOMAIN output : output[j].ligand_name = input[k].ligand_name /\ output[j].binding_affinity = input[k].binding_affinity

\* C22: the list perform_pose_clustering returns is a permutation of the
\* results it was given, each with its affinity unchanged; along the list the
\* quality score of the clusters never increases; and of two results of one
\* cluster the one with the lower affinity comes first.
C22_ClusteredOrder ==
  \A c \in clustered :
    /\ SameResults(results, c)
    /\ \A j \in 1..(Len(c) - 1) : c[j].quality_score >= c[j + 1].quality_score
    /\ \A i \in DOMAIN c : \A j \in DOMAIN c : (i < j /\ c[i].cluster_id = c[j].cluster_id) => c[i].binding_affinity <= c[j].binding_affinity

\* Three results were clustered and the cluster of higher quality, put first,
\* holds the worse affinities.
C22_QualityBeforeAffinity ==
  \E c \in clustered : Len(c) = 3 /\ c[1].quality_score > c[3].quality_score /\ c[1].binding_affinity > c[3].binding_affinity

\* C23: every clustered result lies in the bin of its cluster id, the
\* interval of one bin width that starts at cluster_id * bin_size, so the id
\* is floor(affinity / bin_size) also for negative affinities.
C23_FloorBins ==
  \A c \in clustered : \A k \in DOMAIN c :
    /\ c[k].cluster_id * c[k].bin_size <= 10 * c[k].binding_affinity
    /\ 10 * c[k].binding_affinity < (c[k].cluster_id + 1) * c[k].bin_size

\* C24: a ligand is docked by the GPU executor only when GPU docking is
\* enabled in the configuration, the parameters request it and the
\* availability check has returned true; otherwise by the CPU executor.
C24_GpuOnlyWhenAvailable ==
  /\ engine = "gnina" => (use_gpu_docking /\ availability = {TRUE})
  /\ (engine = "vina" /\ normalized = {}) => ~(use_gpu_docking /\ TruthyValue(get(parameters, "use_gpu", PBool(FALSE))) /\ availability = {TRUE})

\* The parser of the other engine.
OtherTool == IF engine = "vina" THEN "Gnina" ELSE "Vina"

\* C25: whatever the content of the log, parse_vina_log and parse_gnina_log
\* have the same outcome: both raise the parse error, or both return the same
\* modes, binding affinity and pose-quality fields.
C25_ParsersAgree ==
  engine # None => ParseLog(content, OtherTool) = [raised |-> raised, value |-> parsed]

\* C26: at most one execution of a job's workflow is in progress at a time,
\* however the retry requests for the failed job interleave.
C26_OneExecution == Cardinality(running) <= 1

\* The persisted status is COMPLETED or FAILED.
Terminal == job.status \in {COMPLETED, FAILED}

\* C27: an execution in progress leads to a persisted terminal status, and
\* whenever the workflow function has finished, by returning or by raising,
\* the persisted status is terminal.
C27_ReachesTerminal ==
  /\ (phase = "running") ~> (phase # "running" /\ Terminal)
  /\ [](phase \in {"done", "raised"} => Terminal)

\* C28: when the caller supplied center_x, whatever its value, the docking
\* stage is handed the caller's centre and size unchanged.
C28_CallerCentreKept ==
  "center_x" \in DOMAIN parameters => \A d \in docking_input : \A k \in SiteKeys : IF k \in DOMAIN parameters THEN k \in DOMAIN d /\ d[k] = parameters[k] ELSE k \notin DOMAIN d

\* C29: a Celery task runs its workflow again only after the workflow raised
\* ConnectionError or TimeoutError and only while it has retried fewer than 3
\* times, so the retry count never exceeds 3 (4 executions); after any other
\* exception, or a transient one when 3 retries are used up, the task ends
\* without another execution.
C29_CeleryRetries ==
  [][ /\ (runner = "celery" /\ Restarts /\ retryReqs' = retryReqs) => (phase = "raised" /\ exc.type \in {"ConnectionError", "TimeoutError"} /\ retries < 3 /\ retries' = retries + 1)
      /\ (runner = "celery" /\ phase = "raised" /\ ~(exc.type \in {"ConnectionError", "TimeoutError"} /\ retries < 3)) => (phase' = "idle" /\ retries' = retries)
      /\ retries' <= 3 ]_vars

\* A Celery task has ended after its third retry raised a transient error.
C29_RetriesUsedUp == runner = "celery" /\ phase = "idle" /\ retries = 3 /\ exc.type \in {"ConnectionError", "TimeoutError"} /\ retryReqs = 0

\* C30: the cache never holds more than 100 entries; a call of
\* _cache_analysis that would make it larger keeps the new entry and removes
\* an entry no other entry is older than; and _get_cached_analysis returns a
\* result only for an entry that is at most CACHE_TTL_SECONDS old.
C30_CacheBounded ==
  [][ /\ Len(cache') <= 100
      /\ (CacheKeys(cache') \ CacheKeys(cache) # {} /\ Len(cache) = 100) =>
            \E i \in DOMAIN cache : /\ CacheKeys(cache') = (CacheKeys(cache) \ {cache[i].key}) \cup (CacheKeys(cache') \ CacheKeys(cache))
                                     /\ cache[i].key \notin CacheKeys(cache')
                                     /\ \A j \in DOMAIN cache : cache[i].timestamp <= cache[j].timestamp
      /\ \A r \in returned' : r.result # None => r.age <= 3600 ]_vars

\* The full cache has taken a new entry and lost key 2, the oldest entry,
\* while key 1, first in the dict but stored again later, was kept.
C30_OldestEvicted ==
  /\ Len(cache) = 100
  /\ cache[1].key = 1
  /\ cache[1].timestamp > 100
  /\ 2 \notin CacheKeys(cache)
  /\ 101 \in CacheKeys(cache)
====
